---- MODULE Spec2Model ----
(***************************************************************************)
(* ChainFeed: a model of the node runtime (truth propagation, heartbeat    *)
(* emitter / watcher pair over the mesh registry, bus TTL policy, startup  *)
(* and shutdown orchestration), translated from the Python sources.        *)
(*                                                                         *)
(* The module holds several specifications over one set of variables; each *)
(* specification moves the variables of one subsystem and leaves the       *)
(* others at their initial values:                                         *)
(*   SpecTruth    TruthService / TruthListener and truth:integration:schema*)
(*   SpecMesh     HeartbeatInjector / HeartbeatWatcher and mesh:state       *)
(*   SpecTTL      the time-to-live of the bus keys the writers create       *)
(*   SpecStartup  StartupSequence.run: phases, abort, shutdown handler      *)
(*   SpecWorkers  the worker loops, their stop flags and error handling     *)
(*   SpecDiff     DiffTransformService._compute_and_publish_diff            *)
(*   SpecPolicy   redis_set_with_policy over keys of every prefix           *)
(*   SpecValidator  MarketStateValidator.validate_feed_availability         *)
(*   SpecRss      the per-entry handler of RSSFeedIngestor.run              *)
(*   SpecMonitor  HeartbeatMonitor scans, fair to the monitor and the clock *)
(*   SpecConfig   load_variant_config over files of every parsed shape       *)
(*   SpecSynth    SyntheticSpotService.run over one synthetic index          *)
(*   SpecFeeds    FeedOrchestrationService._init_feeds                       *)
(*   SpecNorm       PolygonChainNormalizer.normalize on vendor payloads         *)
(*   SpecEmitter    HeartbeatEmitter under sequences of start() and stop()     *)
(***************************************************************************)
EXTENDS Integers, Sequences, FiniteSets, TLC

VARIABLES
    \* ---- truth subsystem ------------------------------------------------
    tpc,          \* node -> position of TruthService.start() on that node
    seed,         \* node -> version of the seed file canonical_truth.json
    truth_cfg,    \* node -> TruthService.truth_cfg (in-memory document)
    bus_truth,    \* value of the bus key truth:integration:schema
    inbox,        \* node -> messages of truth:update:schema not yet read
    tl_running,   \* node -> TruthListener.running
    tl_events,    \* node -> pub/sub + keyspace events pending at TruthListener
    last_version, \* node -> TruthListener.last_version
    adopted,      \* node -> version of the latest adoption in memory (history)
    bad_seen,     \* node -> the listener has rejected a message (history)
    \* ---- heartbeat injector / watcher over the mesh registry -------------
    now,          \* wall time, seconds
    skew,         \* node -> seconds the node's clock is behind wall time
    hb,           \* group -> value and expiry of the key heartbeat:{group}
    mesh,         \* field -> value of that field of the hash mesh:state
    ipc,          \* node -> position of HeartbeatInjector.run
    iwake,        \* node -> time at which the injector's sleep ends
    itodo,        \* node -> groups the cycle's for-loop has still to visit
    pipe,         \* node -> commands queued in the injector's pipeline
    wpc,          \* watcher -> position of HeartbeatWatcher._poll
    wwake,        \* watcher -> time at which the watcher's sleep ends
    wnow,         \* watcher -> `now` of the poll in progress
    wkeys,        \* watcher -> keys of the poll still to be read
    wmark,        \* watcher -> heartbeat about to be marked offline
    wcur,         \* watcher -> current_nodes of the poll in progress
    wdel,         \* watcher -> fields of mesh:state still to be deleted
    whset,        \* watcher -> node ids of current_nodes still to be written
    wstale,       \* watcher -> entries stale at the start of its poll, untouched since (history)
    wcleaned,     \* watcher -> of those, the ones its own poll removed or rewrote (history)
    woff,         \* watcher -> fields its poll in progress has marked offline (history)
    wfresh,       \* watcher -> fields an injector wrote since its hgetall (history)
    \* ---- time-to-live of bus keys ---------------------------------------
    kttl,         \* key -> Absent, PERSISTENT_TTL or the seconds the key has to live
    insp_pc,      \* position of ExpirationInspector.publish_to_redis
    agent_pc,     \* position of mesh_agent.update_local_registry
    \* ---- startup orchestrator -------------------------------------------
    spc,            \* position of StartupSequence.run
    phases,         \* the phase values written to truth:system:startup_status, in order (history)
    inited,         \* the steps of run() whose init function has returned (history)
    core_failed,    \* init_core_services raised (history)
    workers,        \* worker thread -> "none", "running", "stopping" (flag cleared) or "exited"
    emitter_running,\* HeartbeatEmitter.running
    epc,            \* position of the HeartbeatEmitter thread
    hb_status,      \* status of the heartbeat stored under truth:heartbeat:{node_id}
    shutdown_log,   \* the effects of the shutdown handler, in order (history)
    status,         \* StartupSequence.status of the non-core components
    status_pub,     \* the status field of the document under truth:system:startup_status
    init_failed,    \* non-core components whose init raised (history)
    sd_raised,      \* an exception left the try block of the shutdown handler (history)
    \* ---- worker loops ---------------------------------------------------
    wk_kind,      \* worker -> the class of the worker, "none" when the slot is unused
    wk_key,       \* worker -> symbol of the truth:chain:raw key a raw chain worker writes
    wk_pc,        \* worker -> position of the worker and of its thread
    wk_flag,      \* worker -> its `running` attribute
    wk_payload,   \* worker -> the payload a raw chain worker has built and not yet stored
    wk_stopped,   \* worker -> stop() has been called on it (history)
    wk_late,      \* worker -> it began a cycle after its stop() was called (history)
    wk_early,     \* worker -> 0, or 1 + the cycles completed since a stop() called before run() began (history)
    raw_key,      \* symbol -> frame stored under truth:chain:raw:{symbol}
    clk,          \* the wall clock frame_ts values are taken from
    notice_key,   \* truth:system:shutdown_notice has been written
    late_write,   \* a raw chain key was written after the shutdown notice (history)
    wk_failed,    \* the fetch of worker 1's cycle in progress failed (history)
    wk_fails,     \* failed cycles in a row of worker 1, up to MaxFails (history)
    status_key,   \* symbol -> status stored under truth:feed:{symbol}:status
    \* ---- diff transform worker ------------------------------------------
    full_key,     \* frame stored under truth:chain:full:{SYM}
    prev_key,     \* frame stored under truth:chain:full:{SYM}:prev
    diff_key,     \* diff stored under truth:chain:diff:{SYM}
    dpc,          \* position of _compute_and_publish_diff
    d_cur,        \* `current` of the cycle in progress
    d_prev,       \* `previous` of the cycle in progress
    dclk,         \* frames the full-frame builder has stored; the clock of its frame_ts
    \* ---- redis_set_with_policy ------------------------------------------
    pstore,       \* key -> time-to-live the bus holds for it (Absent: no key)
    pcalls,       \* calls of redis_set_with_policy so far
    psets,        \* Set operations the bus has received so far
    \* ---- market state validator -----------------------------------------
    v_day,        \* now_local.weekday(), Monday = 0
    v_sec,        \* now_local.time(), seconds since midnight US/Eastern
    v_sym,        \* the symbol asked about
    v_result,     \* what validate_feed_availability returned
    \* ---- RSS worker of one group ----------------------------------------
    rss_google,   \* cfg["is_google_alerts"] of the group
    rss_items,    \* the item keys truth:feed:rss:{group}:{uid} and their payloads
    rss_polled,   \* canonical URLs of the entries polled so far (history)
    rss_pending,  \* key of the entry whose SET is done and whose EXPIRE is not, or NoUid
    rss_over_age, \* an entry published more than MAX_AGE_DAYS days before was written (history)
    \* ---- heartbeat monitor over truth:heartbeat:{node_id} ----------------
    hb_age,       \* node -> seconds since the timestamp of its heartbeat key
    emit_on,      \* node -> HeartbeatEmitter.running
    mpc,          \* position of the monitor: asleep or in a scan
    m_todo,       \* keys of the scan not yet checked
    m_elapsed,    \* seconds since the scan took `now`
    scan_alerts,  \* nodes alerted on truth:alert:system in the scan (history)
    late_alert,   \* node -> alerted after its emitter stopped (history)
    \* ---- variant configuration loader -----------------------------------
    cfg_exists,   \* the path given to load_variant_config exists
    cfg_content,  \* what yaml.safe_load makes of the file
    cfg_result,   \* what the call did: returned a value or raised
    \* ---- synthetic spot service ------------------------------------------
    snap,         \* component -> spot of truth:feed:{symbol}:snapshot, or NoSpot
    syn_pc,       \* position of the cycle of SyntheticSpotService.run
    syn_prices,   \* component -> what _get_price returned in the cycle
    spot_key,     \* value and time-to-live of truth:spot:{SYNTH}
    val_key,      \* value of truth:feed:{SYNTH}:validation
    \* ---- feed orchestrator: _init_feeds ---------------------------------
    fo_day,       \* weekday at which _init_feeds runs
    fo_sec,       \* time of day at which _init_feeds runs
    fo_todo,      \* symbols of default_symbols the for-loop has still to visit
    fo_workers,   \* symbols for which a FeedWorker has been started
    fo_validation,\* symbols with a record under truth:feed:{sym}:validation
    nz_payload,     \* the vendor payload's options list handed to normalize()
    nz_pc,          \* "ready" before the call, "done" after it
    nz_out,         \* the call's outcome: raised, or the contracts returned
    em_running,     \* HeartbeatEmitter.running
    em_thread,      \* HeartbeatEmitter.thread: the thread the last start() created (0: None)
    em_pc,          \* thread -> where it is in _run ("none": not created)
    em_caller,      \* the caller of start()/stop(): "idle", or "joining" inside stop()
    em_calls,       \* start() and stop() calls made so far
    em_last,        \* the last call made: "none", "start" or "stop"
    em_cycle        \* threads inside an iteration begun since the last stop() (history)

truthVars == <<tpc, seed, truth_cfg, bus_truth, inbox, tl_running, tl_events,
               last_version, adopted, bad_seen>>

meshVars == <<now, skew, hb, mesh, ipc, iwake, itodo, pipe,
              wpc, wwake, wnow, wkeys, wmark, wcur, wdel, whset, wstale, wcleaned,
             woff, wfresh>>

ttlVars == <<kttl, insp_pc, agent_pc>>

startupVars == <<spc, phases, inited, core_failed, workers, emitter_running, epc,
                 hb_status, shutdown_log, status, status_pub, init_failed, sd_raised>>

workerVars == <<wk_kind, wk_key, wk_pc, wk_flag, wk_payload, wk_stopped, wk_late, wk_early,
                raw_key, clk, notice_key, late_write,
               wk_failed, wk_fails, status_key>>

diffVars == <<full_key, prev_key, diff_key, dpc, d_cur, d_prev, dclk>>

policyVars == <<pstore, pcalls, psets>>

validatorVars == <<v_day, v_sec, v_sym, v_result>>

rssVars == <<rss_google, rss_items, rss_polled, rss_pending, rss_over_age>>

monitorVars == <<hb_age, emit_on, mpc, m_todo, m_elapsed, scan_alerts, late_alert>>

configVars == <<cfg_exists, cfg_content, cfg_result>>

synthVars == <<snap, syn_pc, syn_prices, spot_key, val_key>>

feedsVars == <<fo_day, fo_sec, fo_todo, fo_workers, fo_validation>>

normVars == <<nz_payload, nz_pc, nz_out>>

emitterVars == <<em_running, em_thread, em_pc, em_caller, em_calls, em_last, em_cycle>>

vars == <<truthVars, meshVars, ttlVars, startupVars, workerVars, diffVars, policyVars,
          validatorVars, rssVars, monitorVars, configVars, synthVars, feedsVars, normVars, emitterVars>>

nonTruthVars == <<meshVars, ttlVars, startupVars, workerVars, diffVars, policyVars, validatorVars,
    rssVars, monitorVars, configVars, synthVars, feedsVars, normVars, emitterVars>>
nonMeshVars == <<truthVars, ttlVars, startupVars, workerVars, diffVars, policyVars, validatorVars,
    rssVars, monitorVars, configVars, synthVars, feedsVars, normVars, emitterVars>>
nonTTLVars == <<truthVars, meshVars, startupVars, workerVars, diffVars, policyVars, validatorVars,
    rssVars, monitorVars, configVars, synthVars, feedsVars, normVars, emitterVars>>
nonStartupVars == <<truthVars, meshVars, ttlVars, workerVars, diffVars, policyVars, validatorVars,
    rssVars, monitorVars, configVars, synthVars, feedsVars, normVars, emitterVars>>
nonWorkerVars == <<truthVars, meshVars, ttlVars, startupVars, diffVars, policyVars, validatorVars,
    rssVars, monitorVars, configVars, synthVars, feedsVars, normVars, emitterVars>>
nonDiffVars == <<truthVars, meshVars, ttlVars, startupVars, workerVars, policyVars, validatorVars,
    rssVars, monitorVars, configVars, synthVars, feedsVars, normVars, emitterVars>>
nonPolicyVars == <<truthVars, meshVars, ttlVars, startupVars, workerVars, diffVars, validatorVars,
    rssVars, monitorVars, configVars, synthVars, feedsVars, normVars, emitterVars>>
nonValidatorVars == <<truthVars, meshVars, ttlVars, startupVars, workerVars, diffVars, policyVars,
    rssVars, monitorVars, configVars, synthVars, feedsVars, normVars, emitterVars>>
nonRssVars == <<truthVars, meshVars, ttlVars, startupVars, workerVars, diffVars, policyVars,
    validatorVars, monitorVars, configVars, synthVars, feedsVars, normVars, emitterVars>>
nonMonitorVars == <<truthVars, meshVars, ttlVars, startupVars, workerVars, diffVars, policyVars,
    validatorVars, rssVars, configVars, synthVars, feedsVars, normVars, emitterVars>>
nonConfigVars == <<truthVars, meshVars, ttlVars, startupVars, workerVars, diffVars, policyVars,
    validatorVars, rssVars, monitorVars, synthVars, feedsVars, normVars, emitterVars>>
nonSynthVars == <<truthVars, meshVars, ttlVars, startupVars, workerVars, diffVars, policyVars,
    validatorVars, rssVars, monitorVars, configVars, feedsVars, normVars, emitterVars>>
nonFeedsVars == <<truthVars, meshVars, ttlVars, startupVars, workerVars, diffVars, policyVars,
    validatorVars, rssVars, monitorVars, configVars, synthVars, normVars, emitterVars>>
nonNormVars == <<truthVars, meshVars, ttlVars, startupVars, workerVars, diffVars, policyVars,
    validatorVars, rssVars, monitorVars, configVars, synthVars, feedsVars, emitterVars>>
nonEmitterVars == <<truthVars, meshVars, ttlVars, startupVars, workerVars, diffVars, policyVars,
    validatorVars, rssVars, monitorVars, configVars, synthVars, feedsVars, normVars>>

(***************************************************************************)
(* Bounds of the model.                                                    *)
(***************************************************************************)
MaxInbox == 1      \* messages / events a listener may have pending

Nodes == {"A", "B"}

(***************************************************************************)
(* Versions.  A version string "v<major>.<minor>.<patch>" is modelled by   *)
(* its integer components; VersionStr renders the string (as character     *)
(* codes) because the code compares the strings, not the components.       *)
(***************************************************************************)
Versions == {<<1, 9, 0>>, <<1, 10, 0>>, <<1, 10, 1>>}

NoDoc == <<>>                 \* key absent / nothing loaded / nothing adopted
SchemaMethod == <<0>>         \* the bound method BaseModel.schema (not a document)
BadMessage == <<0, 0>>        \* data on the channel that is not an update payload
Messages == Versions \cup {BadMessage}

\* the spec's order: integer tuples, compared lexicographically
TupleLess(a, b) ==
    \/ a[1] < b[1]
    \/ a[1] = b[1] /\ a[2] < b[2]
    \/ a[1] = b[1] /\ a[2] = b[2] /\ a[3] < b[3]

TupleLeq(a, b) == a = b \/ TupleLess(a, b)

RECURSIVE Digits(_)
Digits(n) == IF n < 10 THEN <<48 + n>> ELSE Digits(n \div 10) \o <<48 + (n % 10)>>

\* "v1.10.0" as a sequence of character codes ('v' = 118, '.' = 46)
VersionStr(v) == <<118>> \o Digits(v[1]) \o <<46>> \o Digits(v[2]) \o <<46>> \o Digits(v[3])

\* Python's str.__gt__: lexicographic on code points, a proper prefix is smaller
RECURSIVE StrGreater(_, _)
StrGreater(s, t) ==
    IF s = <<>> THEN FALSE
    ELSE IF t = <<>> THEN TRUE
    ELSE IF Head(s) # Head(t) THEN Head(s) > Head(t)
    ELSE StrGreater(Tail(s), Tail(t))

\* truth_service.py:102  `redis_version > local_version`
RedisNewer(redis_version, local_version) ==
    StrGreater(VersionStr(redis_version), VersionStr(local_version))


(***************************************************************************)
(* Truth Service (core/startup/services/truth_service.py) and Truth        *)
(* Listener (core/listeners/truth_listener.py).  One action per bus        *)
(* operation, with the local code that follows it.                         *)
(***************************************************************************)
IdleTruth ==
    /\ tpc = [n \in Nodes |-> "idle"]
    /\ seed = [n \in Nodes |-> NoDoc]
    /\ truth_cfg = [n \in Nodes |-> NoDoc]
    /\ bus_truth = NoDoc
    /\ inbox = [n \in Nodes |-> <<>>]
    /\ tl_running = [n \in Nodes |-> FALSE]
    /\ tl_events = [n \in Nodes |-> 0]
    /\ last_version = [n \in Nodes |-> NoDoc]
    /\ adopted = [n \in Nodes |-> NoDoc]
    /\ bad_seen = [n \in Nodes |-> FALSE]

InitTruth ==
    /\ tpc = [n \in Nodes |-> "idle"]
    /\ seed \in [Nodes -> Versions]
    /\ truth_cfg = [n \in Nodes |-> NoDoc]
    /\ bus_truth = NoDoc
    /\ inbox = [n \in Nodes |-> <<>>]
    /\ tl_running = [n \in Nodes |-> FALSE]
    /\ tl_events = [n \in Nodes |-> 0]
    /\ last_version = [n \in Nodes |-> NoDoc]
    /\ adopted = [n \in Nodes |-> NoDoc]
    /\ bad_seen = [n \in Nodes |-> FALSE]

\* a Set of truth:integration:schema raises a keyspace event, and a message on
\* truth:update:schema a pub/sub event, at every running TruthListener
\* (truth_listener.py:79-85); the events pending saturate at MaxInbox
NotifyListener(ev) ==
    [m \in Nodes |-> IF tl_running[m] /\ ev[m] < MaxInbox THEN ev[m] + 1 ELSE ev[m]]

\* truth_service.py:44-69 (the seed file exists)
LoadCanonicalTruth(n) ==
    /\ tpc[n] = "idle"
    /\ truth_cfg' = [truth_cfg EXCEPT ![n] = seed[n]]
    /\ tpc' = [tpc EXCEPT ![n] = "loaded"]
    /\ UNCHANGED <<seed, bus_truth, inbox, tl_running, tl_events, last_version, adopted, bad_seen>>
    /\ UNCHANGED nonTruthVars

\* truth_service.py:93-109, up to and excluding the publish_truth() of line 109
SyncWithRedis(n) ==
    /\ tpc[n] = "loaded"
    /\ IF bus_truth # NoDoc
       THEN /\ tpc' = [tpc EXCEPT ![n] = "synced"]
            /\ IF RedisNewer(bus_truth, truth_cfg[n])
               THEN /\ truth_cfg' = [truth_cfg EXCEPT ![n] = bus_truth]
                    /\ adopted' = [adopted EXCEPT ![n] = bus_truth]
               ELSE UNCHANGED <<truth_cfg, adopted, bad_seen>>
       ELSE /\ tpc' = [tpc EXCEPT ![n] = "sync_publish"]
            /\ UNCHANGED <<truth_cfg, adopted, bad_seen>>
    /\ UNCHANGED <<seed, bus_truth, inbox, tl_running, tl_events, last_version, bad_seen>>
    /\ UNCHANGED nonTruthVars

\* truth_service.py:74-88  redis.set(key_canonical, payload)
PublishTruth(n, next) ==
    /\ bus_truth' = truth_cfg[n]
    /\ tl_events' = NotifyListener(tl_events)
    /\ tpc' = [tpc EXCEPT ![n] = next]
    /\ UNCHANGED <<seed, truth_cfg, inbox, tl_running, last_version, adopted, bad_seen>>
    /\ UNCHANGED nonTruthVars

\* truth_service.py:109  the publish inside sync_with_redis (bus was empty)
SyncPublish(n) ==
    /\ tpc[n] = "sync_publish"
    /\ PublishTruth(n, "synced")

\* truth_service.py:150  the publish of start()
StartPublish(n) ==
    /\ tpc[n] = "synced"
    /\ PublishTruth(n, "published")

\* truth_service.py:116-140  running = True, the thread subscribes
StartListener(n) ==
    /\ tpc[n] = "published"
    /\ tpc' = [tpc EXCEPT ![n] = "listening"]
    /\ UNCHANGED <<seed, truth_cfg, bus_truth, inbox, tl_running, tl_events,
                   last_version, adopted, bad_seen>>
    /\ UNCHANGED nonTruthVars

\* truth_service.py:132  `update.schema`: TruthUpdatePayload's field is named
\* truth_schema (alias "schema", truth_models.py:104), so the attribute `schema`
\* is pydantic's BaseModel.schema method, not the document of the message
UpdateSchemaAttr(msg) == SchemaMethod

\* truth_service.py:129-130  json.loads(message["data"]) and
\* TruthUpdatePayload(**data) accept the message
ValidUpdate(msg) == msg \in Versions

\* truth_service.py:122-135  one message taken by the listener thread; a
\* message that does not parse raises, the handler inside the loop logs it
ListenerMessage(n) ==
    /\ tpc[n] = "listening"
    /\ inbox[n] # <<>>
    /\ IF ValidUpdate(Head(inbox[n]))
       THEN /\ truth_cfg' = [truth_cfg EXCEPT ![n] = UpdateSchemaAttr(Head(inbox[n]))]
            /\ adopted' = [adopted EXCEPT ![n] = Head(inbox[n])]
            /\ UNCHANGED bad_seen
       ELSE /\ bad_seen' = [bad_seen EXCEPT ![n] = TRUE]
            /\ UNCHANGED <<truth_cfg, adopted>>
    /\ inbox' = [inbox EXCEPT ![n] = Tail(inbox[n])]
    /\ UNCHANGED <<tpc, seed, bus_truth, tl_running, tl_events, last_version>>
    /\ UNCHANGED nonTruthVars

\* a message published on truth:update:schema (the channel both listeners
\* subscribe to: truth_service.py:120, truth_listener.py:79): a truth update of
\* version v, or data that is no update payload
UpdateMessage(v) ==
    /\ \A n \in Nodes : Len(inbox[n]) < MaxInbox
    /\ \E n \in Nodes : tpc[n] = "listening" \/ tl_running[n]
    /\ inbox' = [n \in Nodes |->
                    IF tpc[n] = "listening" THEN Append(inbox[n], v) ELSE inbox[n]]
    /\ tl_events' = NotifyListener(tl_events)
    /\ UNCHANGED <<tpc, seed, truth_cfg, bus_truth, tl_running, last_version, adopted, bad_seen>>
    /\ UNCHANGED nonTruthVars

\* truth_listener.py:51-58
TLStart(n) ==
    /\ ~tl_running[n]
    /\ tl_running' = [tl_running EXCEPT ![n] = TRUE]
    /\ UNCHANGED <<tpc, seed, truth_cfg, bus_truth, inbox, tl_events, last_version, adopted, bad_seen>>
    /\ UNCHANGED nonTruthVars

\* on_update(truth): the callback replaces the node's in-memory document
OnUpdate(n, truth) ==
    /\ truth_cfg' = [truth_cfg EXCEPT ![n] = truth]
    /\ adopted' = [adopted EXCEPT ![n] = truth]

\* truth_listener.py:92-101 and 132-146  a message or keyspace event arrived
ReloadTruth(n) ==
    /\ tl_running[n]
    /\ tl_events[n] > 0
    /\ tl_events' = [tl_events EXCEPT ![n] = tl_events[n] - 1]
    /\ IF bus_truth # NoDoc
       THEN /\ last_version' = [last_version EXCEPT ![n] = bus_truth]
            /\ OnUpdate(n, bus_truth)
       ELSE UNCHANGED <<last_version, truth_cfg, adopted, bad_seen>>
    /\ UNCHANGED <<tpc, seed, bus_truth, inbox, tl_running, bad_seen>>
    /\ UNCHANGED nonTruthVars

\* truth_listener.py:102-104 and 113-127  get_message timed out: poll fallback
CheckTruthPoll(n) ==
    /\ tl_running[n]
    /\ tl_events[n] = 0
    /\ bus_truth # NoDoc
    /\ last_version[n] # bus_truth
    /\ last_version' = [last_version EXCEPT ![n] = bus_truth]
    /\ OnUpdate(n, bus_truth)
    /\ UNCHANGED <<tpc, seed, bus_truth, inbox, tl_running, tl_events, bad_seen>>
    /\ UNCHANGED nonTruthVars

NextTruth ==
    \/ \E n \in Nodes : LoadCanonicalTruth(n)
    \/ \E n \in Nodes : SyncWithRedis(n)
    \/ \E n \in Nodes : SyncPublish(n)
    \/ \E n \in Nodes : StartPublish(n)
    \/ \E n \in Nodes : StartListener(n)
    \/ \E n \in Nodes : ListenerMessage(n)
    \/ \E v \in Messages : UpdateMessage(v)
    \/ \E n \in Nodes : TLStart(n)
    \/ \E n \in Nodes : ReloadTruth(n)
    \/ \E n \in Nodes : CheckTruthPoll(n)


(***************************************************************************)
(* Bus TTL policy (config/chainfeed_constants.py, utils/redis_client.py).  *)
(* A key is modelled by its prefix (up to and including the first ':')     *)
(* and the rest of its name.                                               *)
(***************************************************************************)
PERSISTENT_TTL == -1      \* chainfeed_constants.py:200
HEARTBEAT_TTL_SEC == 15   \* chainfeed_constants.py:106

PolicyPrefixes == {"meta:", "config:", "mesh:", "heartbeat:", "chainfeed:", "feed:", "expirations:"}

\* chainfeed_constants.py:179-196
PIPE_TTL_POLICY(prefix) ==
    CASE prefix = "meta:" -> -1
      [] prefix = "config:" -> -1
      [] prefix = "mesh:" -> 600
      [] prefix = "heartbeat:" -> 15
      [] prefix = "chainfeed:" -> 20
      [] prefix = "feed:" -> 15
      [] prefix = "expirations:" -> -1

\* redis_client.py:15-24  the `ex` redis_set_with_policy passes to redis.set
\* for a key of this prefix (PERSISTENT_TTL stands for ex=None)
PolicyTTLNoDefault(prefix) ==
    IF prefix \in PolicyPrefixes THEN PIPE_TTL_POLICY(prefix) ELSE PERSISTENT_TTL

PolicyTTL(prefix) ==
    IF prefix \in PolicyPrefixes
    THEN (IF PIPE_TTL_POLICY(prefix) = -1 THEN PERSISTENT_TTL ELSE PIPE_TTL_POLICY(prefix))
    ELSE 15

(***************************************************************************)
(* Heartbeat injector (core/heartbeat_injector.py) and heartbeat watcher   *)
(* (core/heartbeat_watcher.py) over the keys heartbeat:{group} and the     *)
(* hash mesh:state.  One action per bus operation.                         *)
(***************************************************************************)
MaxTicks == 3                 \* clock ticks of the model

Watchers == {"A"}             \* nodes that run a HeartbeatWatcher
Skews == {0, 20}              \* clock skews of a node without watcher, seconds

\* chainfeed_constants.py:58 (the first of the three feed groups)
FEED_GROUPS == <<"spx_complex">>
Groups == {FEED_GROUPS[i] : i \in 1..Len(FEED_GROUPS)}

INTERVAL_SEC == 5             \* heartbeat_injector.py:44
\* heartbeat_watcher.py:58  time.sleep(self.ttl / 3); also the clock's tick
WatcherSleep == HEARTBEAT_TTL_SEC \div 3
MaxTime == MaxTicks * WatcherSleep

NoKey == [absent |-> TRUE]
NoPayload == [absent |-> TRUE]

\* fields of mesh:state: "{node_id}:{group}" (injector) and "{node_id}" (watcher)
Fields == {<<n, g>> : n \in Nodes, g \in Groups} \cup {<<n>> : n \in Nodes}

\* datetime.now() on node n
Clock(n) == now - skew[n]

IdleMesh ==
    /\ now = 0
    /\ skew = [n \in Nodes |-> 0]
    /\ hb = [g \in Groups |-> NoKey]
    /\ mesh = [f \in Fields |-> NoPayload]
    /\ ipc = [n \in Nodes |-> "sleep"]
    /\ iwake = [n \in Nodes |-> 0]
    /\ itodo = [n \in Nodes |-> <<>>]
    /\ pipe = [n \in Nodes |-> <<>>]
    /\ wpc = [w \in Watchers |-> "sleep"]
    /\ wwake = [w \in Watchers |-> 0]
    /\ wnow = [w \in Watchers |-> 0]
    /\ wkeys = [w \in Watchers |-> {}]
    /\ wmark = [w \in Watchers |-> NoPayload]
    /\ wcur = [w \in Watchers |-> [n \in Nodes |-> NoPayload]]
    /\ wdel = [w \in Watchers |-> {}]
    /\ whset = [w \in Watchers |-> {}]
    /\ wstale = [w \in Watchers |-> {}]
    /\ wcleaned = [w \in Watchers |-> {}]
    /\ woff = [w \in Watchers |-> {}]
    /\ wfresh = [w \in Watchers |-> {}]

InitMesh ==
    /\ now = 0
    /\ \E s \in Skews : skew = [n \in Nodes |-> IF n \in Watchers THEN 0 ELSE s]
    /\ hb = [g \in Groups |-> NoKey]
    /\ mesh = [f \in Fields |-> NoPayload]
    /\ ipc = [n \in Nodes |-> "sleep"]
    /\ iwake = [n \in Nodes |-> 0]
    /\ itodo = [n \in Nodes |-> <<>>]
    /\ pipe = [n \in Nodes |-> <<>>]
    /\ wpc = [w \in Watchers |-> "sleep"]
    /\ wwake = [w \in Watchers |-> 0]
    /\ wnow = [w \in Watchers |-> 0]
    /\ wkeys = [w \in Watchers |-> {}]
    /\ wmark = [w \in Watchers |-> NoPayload]
    /\ wcur = [w \in Watchers |-> [n \in Nodes |-> NoPayload]]
    /\ wdel = [w \in Watchers |-> {}]
    /\ whset = [w \in Watchers |-> {}]
    /\ wstale = [w \in Watchers |-> {}]
    /\ wcleaned = [w \in Watchers |-> {}]
    /\ woff = [w \in Watchers |-> {}]
    /\ wfresh = [w \in Watchers |-> {}]

\* the bus drops a key whose expiry has passed
Expire(keys, t) == [g \in Groups |->
    IF keys[g] # NoKey /\ keys[g].exp # PERSISTENT_TTL /\ keys[g].exp <= t THEN NoKey ELSE keys[g]]

Tick ==
    /\ now + WatcherSleep <= MaxTime
    /\ now' = now + WatcherSleep
    /\ hb' = Expire(hb, now + WatcherSleep)
    /\ UNCHANGED <<skew, mesh, ipc, iwake, itodo, pipe,
                   wpc, wwake, wnow, wkeys, wmark, wcur, wdel, whset, wstale, wcleaned, woff, wfresh>>
    /\ UNCHANGED nonMeshVars

\* a write of field f by any client: the entry a watcher saw stale is gone
Touched(st, f) == [w \in Watchers |-> st[w] \ {f}]

\* heartbeat_injector.py:49-61
BuildHeartbeat(n, group) ==
    [node_id |-> n, group |-> group, timestamp |-> Clock(n), status |-> "online"]

\* heartbeat_injector.py:67-70  top of the loop after the sleep: a new pipeline
InjectorBegin(n) ==
    /\ ipc[n] = "sleep"
    /\ now >= iwake[n]
    /\ ipc' = [ipc EXCEPT ![n] = "emit"]
    /\ itodo' = [itodo EXCEPT ![n] = FEED_GROUPS]
    /\ pipe' = [pipe EXCEPT ![n] = <<>>]
    /\ UNCHANGED <<now, skew, hb, mesh, iwake,
                   wpc, wwake, wnow, wkeys, wmark, wcur, wdel, whset, wstale, wcleaned, woff, wfresh>>
    /\ UNCHANGED nonMeshVars

\* heartbeat_injector.py:72-85  one group of the for-loop: the heartbeat key is
\* set on the connection at once, the hset and the publish are queued
InjectorGroup(n) ==
    /\ ipc[n] = "emit"
    /\ itodo[n] # <<>>
    /\ LET group == Head(itodo[n])
           payload == BuildHeartbeat(n, group)
           ttl == PolicyTTL("heartbeat:")
       IN /\ hb' = [hb EXCEPT ![group] =
                       [p |-> payload,
                        exp |-> IF ttl = PERSISTENT_TTL THEN PERSISTENT_TTL ELSE now + ttl]]
          /\ pipe' = [pipe EXCEPT ![n] = Append(pipe[n], payload)]
    /\ itodo' = [itodo EXCEPT ![n] = Tail(itodo[n])]
    /\ UNCHANGED <<now, skew, mesh, ipc, iwake,
                   wpc, wwake, wnow, wkeys, wmark, wcur, wdel, whset, wstale, wcleaned, woff, wfresh>>
    /\ UNCHANGED nonMeshVars

\* heartbeat_injector.py:88-95  pipe.execute() (MULTI/EXEC), then the sleep
InjectorExecute(n) ==
    /\ ipc[n] = "emit"
    /\ itodo[n] = <<>>
    /\ LET written == {<<n, pipe[n][i].group>> : i \in 1..Len(pipe[n])}
           last(f) == CHOOSE i \in 1..Len(pipe[n]) :
                         /\ pipe[n][i].group = f[2]
                         /\ \A j \in 1..Len(pipe[n]) : pipe[n][j].group = f[2] => j <= i
       IN /\ mesh' = [f \in Fields |-> IF f \in written THEN pipe[n][last(f)] ELSE mesh[f]]
          /\ wstale' = [w \in Watchers |-> wstale[w] \ written]
          /\ wfresh' = [w \in Watchers |->
                          IF wpc[w] = "sync" THEN wfresh[w] \cup written ELSE wfresh[w]]
    /\ pipe' = [pipe EXCEPT ![n] = <<>>]
    /\ ipc' = [ipc EXCEPT ![n] = "sleep"]
    /\ iwake' = [iwake EXCEPT ![n] = now + INTERVAL_SEC]
    /\ UNCHANGED <<now, skew, hb, itodo,
                   wpc, wwake, wnow, wkeys, wmark, wcur, wdel, whset, wcleaned, woff>>
    /\ UNCHANGED nonMeshVars

\* an entry of mesh:state that watcher w's clock finds older than the TTL and
\* that is not marked offline
StaleEntry(w, e) ==
    /\ e # NoPayload
    /\ e.status # "offline"
    /\ Clock(w) - e.timestamp > HEARTBEAT_TTL_SEC

\* heartbeat_watcher.py:65-70  keys("heartbeat:*"), now, current_nodes = {}
WatcherKeys(w) ==
    /\ wpc[w] = "sleep"
    /\ now >= wwake[w]
    /\ wpc' = [wpc EXCEPT ![w] = "scan"]
    /\ wkeys' = [wkeys EXCEPT ![w] = {g \in Groups : hb[g] # NoKey}]
    /\ wnow' = [wnow EXCEPT ![w] = Clock(w)]
    /\ wcur' = [wcur EXCEPT ![w] = [n \in Nodes |-> NoPayload]]
    /\ wstale' = [wstale EXCEPT ![w] = {f \in Fields : StaleEntry(w, mesh[f])}]
    /\ wcleaned' = [wcleaned EXCEPT ![w] = {}]
    /\ woff' = [woff EXCEPT ![w] = {}]
    /\ UNCHANGED <<now, skew, hb, mesh, ipc, iwake, itodo, pipe,
                   wwake, wmark, wdel, whset, wfresh>>
    /\ UNCHANGED nonMeshVars

\* heartbeat_watcher.py:72-98  redis.get of one key and the drift test
WatcherGet(w, g) ==
    /\ wpc[w] = "scan"
    /\ g \in wkeys[w]
    /\ wkeys' = [wkeys EXCEPT ![w] = wkeys[w] \ {g}]
    /\ IF hb[g] = NoKey
       THEN UNCHANGED <<wpc, wmark, wcur>>
       ELSE LET p == hb[g].p
                drift == wnow[w] - p.timestamp
            IN IF drift > HEARTBEAT_TTL_SEC
               THEN /\ wmark' = [wmark EXCEPT ![w] = p]
                    /\ wpc' = [wpc EXCEPT ![w] = "mark"]
                    /\ UNCHANGED wcur
               ELSE /\ wcur' = [wcur EXCEPT ![w][p.node_id] =
                                   [group |-> p.group, status |-> "online",
                                    timestamp |-> p.timestamp]]
                    /\ UNCHANGED <<wpc, wmark>>
    /\ UNCHANGED <<now, skew, hb, mesh, ipc, iwake, itodo, pipe,
                   wwake, wnow, wdel, whset, wstale, wcleaned, woff, wfresh>>
    /\ UNCHANGED nonMeshVars

\* heartbeat_watcher.py:106-115  hset(mesh:state, node_id, offline state)
MarkOffline(w) ==
    /\ wpc[w] = "mark"
    /\ LET p == wmark[w]
           f == <<p.node_id>>
       IN /\ mesh' = [mesh EXCEPT ![f] =
                         [group |-> p.group, status |-> "offline", timestamp |-> p.timestamp]]
          /\ wcleaned' = [wcleaned EXCEPT ![w] = wcleaned[w] \cup (wstale[w] \cap {f})]
          /\ wstale' = Touched(wstale, f)
          /\ woff' = [woff EXCEPT ![w] = woff[w] \cup {f}]
    /\ wmark' = [wmark EXCEPT ![w] = NoPayload]
    /\ wpc' = [wpc EXCEPT ![w] = "scan"]
    /\ UNCHANGED <<now, skew, hb, ipc, iwake, itodo, pipe,
                   wwake, wnow, wkeys, wcur, wdel, whset, wfresh>>
    /\ UNCHANGED nonMeshVars

\* StaleNodes without the removal loop: nothing is ever deleted
StaleNodesNoRemoval(existing_nodes, current_set) == {}

\* heartbeat_watcher.py:131-135  the fields the removal loop deletes
StaleNodes(existing_nodes, current_set) ==
    {f \in existing_nodes : f \notin {<<n>> : n \in current_set}}

\* heartbeat_watcher.py:104, 124-131  hgetall(mesh:state) and the two sets
SyncMeshState(w) ==
    /\ wpc[w] = "scan"
    /\ wkeys[w] = {}
    /\ LET existing_nodes == {f \in Fields : mesh[f] # NoPayload}
           current_set == {n \in Nodes : wcur[w][n] # NoPayload}
       IN /\ wdel' = [wdel EXCEPT ![w] = StaleNodes(existing_nodes, current_set)]
          /\ whset' = [whset EXCEPT ![w] = current_set]
    /\ wfresh' = [wfresh EXCEPT ![w] = {}]
    /\ wpc' = [wpc EXCEPT ![w] = "sync"]
    /\ UNCHANGED <<now, skew, hb, mesh, ipc, iwake, itodo, pipe,
                   wwake, wnow, wkeys, wmark, wcur, wstale, wcleaned, woff>>
    /\ UNCHANGED nonMeshVars

\* heartbeat_watcher.py:134-137  hdel(mesh:state, node_id) of one stale field
WatcherHdel(w, f) ==
    /\ wpc[w] = "sync"
    /\ f \in wdel[w]
    /\ wdel' = [wdel EXCEPT ![w] = wdel[w] \ {f}]
    /\ mesh' = [mesh EXCEPT ![f] = NoPayload]
    /\ wcleaned' = [wcleaned EXCEPT ![w] = wcleaned[w] \cup (wstale[w] \cap {f})]
    /\ wstale' = Touched(wstale, f)
    /\ UNCHANGED <<now, skew, hb, ipc, iwake, itodo, pipe,
                   wpc, wwake, wnow, wkeys, wmark, wcur, whset, woff, wfresh>>
    /\ UNCHANGED nonMeshVars

\* heartbeat_watcher.py:140-141  hset(mesh:state, node_id, state) of one
\* healthy node, once the removal loop is over
WatcherHset(w, n) ==
    /\ wpc[w] = "sync"
    /\ wdel[w] = {}
    /\ n \in whset[w]
    /\ whset' = [whset EXCEPT ![w] = whset[w] \ {n}]
    /\ mesh' = [mesh EXCEPT ![<<n>>] = wcur[w][n]]
    /\ wcleaned' = [wcleaned EXCEPT ![w] = wcleaned[w] \cup (wstale[w] \cap {<<n>>})]
    /\ wstale' = Touched(wstale, <<n>>)
    /\ UNCHANGED <<now, skew, hb, ipc, iwake, itodo, pipe,
                   wpc, wwake, wnow, wkeys, wmark, wcur, wdel, woff, wfresh>>
    /\ UNCHANGED nonMeshVars

\* heartbeat_watcher.py:57-58  _poll returns, the loop sleeps ttl / 3
WatcherSleeps(w) ==
    /\ wpc[w] = "sync"
    /\ wdel[w] = {}
    /\ whset[w] = {}
    /\ wpc' = [wpc EXCEPT ![w] = "sleep"]
    /\ wwake' = [wwake EXCEPT ![w] = now + WatcherSleep]
    /\ woff' = [woff EXCEPT ![w] = {}]
    /\ wfresh' = [wfresh EXCEPT ![w] = {}]
    /\ UNCHANGED <<now, skew, hb, mesh, ipc, iwake, itodo, pipe,
                   wnow, wkeys, wmark, wcur, wdel, whset, wstale, wcleaned>>
    /\ UNCHANGED nonMeshVars

NextMesh ==
    \/ Tick
    \/ \E n \in Nodes : InjectorBegin(n)
    \/ \E n \in Nodes : InjectorGroup(n)
    \/ \E n \in Nodes : InjectorExecute(n)
    \/ \E w \in Watchers : WatcherKeys(w)
    \/ \E w \in Watchers, g \in Groups : WatcherGet(w, g)
    \/ \E w \in Watchers : MarkOffline(w)
    \/ \E w \in Watchers : SyncMeshState(w)
    \/ \E w \in Watchers, f \in Fields : WatcherHdel(w, f)
    \/ \E w \in Watchers, n \in Nodes : WatcherHset(w, n)
    \/ \E w \in Watchers : WatcherSleeps(w)

(***************************************************************************)
(* Time-to-live of the bus keys with a policy prefix, as their writers     *)
(* create them: redis_set_with_policy (heartbeat injector), HSET on        *)
(* mesh:state (injector, watcher, mesh registration), ExpirationInspector, *)
(* and the mesh agent's local registry.                                    *)
(***************************************************************************)
Absent == -2

KeyHeartbeat == <<"heartbeat:", "spx_complex">>        \* chainfeed_constants.py:72
KeyMeshState == <<"mesh:", "state">>                   \* chainfeed_constants.py:116
KeyMeshNodes == <<"mesh:", "nodes">>                   \* mesh_agent.py:47
KeyExpirations == <<"chainfeed:", "SPX:expirations">>  \* chainfeed_constants.py:68
KeyMetaExpirations == <<"chainfeed:", "meta:expirations">>  \* expiration_inspector.py:168
KeyTruthHeartbeat == <<"truth:", "heartbeat:node">>     \* heartbeat_emitter.py:42
Keys == {KeyHeartbeat, KeyMeshState, KeyMeshNodes, KeyExpirations, KeyMetaExpirations,
         KeyTruthHeartbeat}

IdleTTL ==
    /\ kttl = [k \in Keys |-> Absent]
    /\ insp_pc = "idle"
    /\ agent_pc = "idle"

InitTTL == IdleTTL

\* SET key value [EX ttl]: the key's time-to-live is replaced
RedisSet(k, ex) == kttl' = [kttl EXCEPT ![k] = ex]

\* HSET key field value: a new hash has no expiry, an existing one keeps its own
RedisHset(k) == kttl' = [kttl EXCEPT ![k] = IF kttl[k] = Absent THEN PERSISTENT_TTL ELSE kttl[k]]

\* heartbeat_injector.py:73-78  redis_set_with_policy(redis, "heartbeat:{group}", ...)
SetHeartbeatWithPolicy ==
    /\ RedisSet(KeyHeartbeat, PolicyTTL(KeyHeartbeat[1]))
    /\ UNCHANGED <<insp_pc, agent_pc>>
    /\ UNCHANGED nonTTLVars

\* heartbeat_injector.py:82, heartbeat_watcher.py:114 and 141,
\* heartbeat_startup.py:99  hset(MESH_STATE_KEY, field, value)
HsetMeshState ==
    /\ kttl[KeyMeshState] = Absent
    /\ RedisHset(KeyMeshState)
    /\ UNCHANGED <<insp_pc, agent_pc>>
    /\ UNCHANGED nonTTLVars

\* heartbeat_watcher.py:137  hdel of the last field removes the hash
HdelLastMeshState ==
    /\ kttl[KeyMeshState] # Absent
    /\ kttl' = [kttl EXCEPT ![KeyMeshState] = Absent]
    /\ UNCHANGED <<insp_pc, agent_pc>>
    /\ UNCHANGED nonTTLVars

\* expiration_inspector.py:167-171  redis.set(exp_key, payload)
PublishExpirations ==
    /\ insp_pc = "idle"
    /\ RedisSet(KeyExpirations, PERSISTENT_TTL)
    /\ insp_pc' = "summary"
    /\ UNCHANGED agent_pc
    /\ UNCHANGED nonTTLVars

\* expiration_inspector.py:173-182  redis.hset(meta_key, symbol, summary)
PublishExpirationsMeta ==
    /\ insp_pc = "summary"
    /\ RedisHset(KeyMetaExpirations)
    /\ insp_pc' = "idle"
    /\ UNCHANGED agent_pc
    /\ UNCHANGED nonTTLVars

\* mesh_agent.py:47-48  r.hset(key, node_id, info)
RegistryHset ==
    /\ agent_pc = "idle"
    /\ RedisHset(KeyMeshNodes)
    /\ agent_pc' = "expire"
    /\ UNCHANGED insp_pc
    /\ UNCHANGED nonTTLVars

\* mesh_agent.py:49  r.expire(key, 300)
RegistryExpire ==
    /\ agent_pc = "expire"
    /\ kttl' = [kttl EXCEPT ![KeyMeshNodes] = IF kttl[KeyMeshNodes] = Absent THEN Absent ELSE 300]
    /\ agent_pc' = "idle"
    /\ UNCHANGED insp_pc
    /\ UNCHANGED nonTTLVars

\* heartbeat_emitter.py:76  redis.set(self.key, payload.to_json())
EmitterSetHeartbeat ==
    /\ RedisSet(KeyTruthHeartbeat, PERSISTENT_TTL)
    /\ UNCHANGED <<insp_pc, agent_pc>>
    /\ UNCHANGED nonTTLVars

\* startup_sequence.py:369-370  the final heartbeat: redis_client.set(key, payload)
FinalHeartbeatSet ==
    /\ kttl[KeyTruthHeartbeat] # Absent
    /\ RedisSet(KeyTruthHeartbeat, PERSISTENT_TTL)
    /\ UNCHANGED <<insp_pc, agent_pc>>
    /\ UNCHANGED nonTTLVars

\* WatcherSleep seconds pass: the bus counts the keys' lives down and drops the
\* keys that reach zero
ExpiryTick ==
    /\ \E k \in Keys : kttl[k] > 0
    /\ kttl' = [k \in Keys |->
                  IF kttl[k] > WatcherSleep THEN kttl[k] - WatcherSleep
                  ELSE IF kttl[k] > 0 THEN Absent
                  ELSE kttl[k]]
    /\ UNCHANGED <<insp_pc, agent_pc>>
    /\ UNCHANGED nonTTLVars

NextTTL ==
    \/ SetHeartbeatWithPolicy
    \/ HsetMeshState
    \/ HdelLastMeshState
    \/ PublishExpirations
    \/ PublishExpirationsMeta
    \/ RegistryHset
    \/ RegistryExpire
    \/ EmitterSetHeartbeat
    \/ FinalHeartbeatSet
    \/ ExpiryTick

(***************************************************************************)
(* Startup orchestrator: StartupSequence.run with the worker threads it    *)
(* starts and the HeartbeatEmitter thread, then the shutdown handler.      *)
(***************************************************************************)
WorkerNames == {"listener", "diff", "rss", "synth"}
IngestionWorkers == {"diff", "rss", "synth"}

\* the phases the specification names, in its order
NamedPhases ==
    <<"redis_connected", "core_services_started", "feed_service_initialized",
      "diff_transform_active", "rss_feeds_initialized", "synthetic_spot_initialized",
      "entity_bridge_initialized", "runtime_started", "startup_complete">>

\* the keys of self.status that the non-core init functions write
NonCore == {"diff_transform", "rss_feeds", "synthetic_spot"}

Range(seq) == {seq[i] : i \in DOMAIN seq}
Rank(order, x) == CHOOSE i \in DOMAIN order : order[i] = x
Last(seq) == seq[Len(seq)]

IdleStartup ==
    /\ spc = "connect"
    /\ phases = <<>>
    /\ inited = {}
    /\ core_failed = FALSE
    /\ workers = [w \in WorkerNames |-> "none"]
    /\ emitter_running = FALSE
    /\ epc = "off"
    /\ hb_status = "none"
    /\ shutdown_log = <<>>
    /\ status = [c \in NonCore |-> "unset"]
    /\ status_pub = [c \in NonCore |-> "unset"]
    /\ init_failed = {}
    /\ sd_raised = FALSE

InitStartup == IdleStartup

\* the step of run() that follows a step
NextStep(step) ==
    CASE step = "connect" -> "core"
      [] step = "core" -> "feed"
      [] step = "feed" -> "diff"
      [] step = "diff" -> "rss"
      [] step = "rss" -> "synth"
      [] step = "synth" -> "convexity"
      [] step = "convexity" -> "entity"
      [] step = "entity" -> "runtime"
      [] step = "runtime" -> "complete"
      [] step = "complete" -> "running"

\* the phases run() publishes when the step's init function has returned
PhaseAfterSwapped(step) ==
    CASE step = "connect" -> <<"redis_connected">>
      [] step = "core" -> <<"core_services_started">>
      [] step = "feed" -> <<"feed_service_initialized">>
      [] step = "diff" -> <<>>
      [] step = "rss" -> <<"rss_feeds_initialized">>
      [] step = "synth" -> <<"runtime_started">>
      [] step = "convexity" -> <<"convexity_initialized">>
      [] step = "entity" -> <<"entity_bridge_initialized">>
      [] step = "runtime" -> <<"synthetic_spot_initialized">>
      [] step = "complete" -> <<"startup_complete">>

PhaseAfter(step) ==
    CASE step = "connect" -> <<"redis_connected">>
      [] step = "core" -> <<"core_services_started">>
      [] step = "feed" -> <<"feed_service_initialized">>
      [] step = "diff" -> <<>>
      [] step = "rss" -> <<"rss_feeds_initialized">>
      [] step = "synth" -> <<"synthetic_spot_initialized">>
      [] step = "convexity" -> <<"convexity_initialized">>
      [] step = "entity" -> <<"entity_bridge_initialized">>
      [] step = "runtime" -> <<"runtime_started">>
      [] step = "complete" -> <<"startup_complete">>

\* self.status after the except branch of the component's init function
\* (startup_sequence.py:151, 202, 222)
StatusAfterErrorKept(st, c) == st

StatusAfterError(st, c) == [st EXCEPT ![c] = "error"]

\* the init function of the step returns after publishing `own`, then run()
\* publishes the step's phase and goes on; st is self.status as the init
\* function leaves it, and publish_status stores self.status as it is then
StepDone(step, own, st) ==
    /\ phases' = phases \o own \o PhaseAfter(step)
    /\ status' = st
    /\ status_pub' = IF own \o PhaseAfter(step) # <<>> THEN st ELSE status_pub
    /\ inited' = inited \cup {step}
    /\ spc' = NextStep(step)

\* where run() is after init_core_services raised
OnCoreFailureContinue == "feed"

OnCoreFailure == "aborted"

ConnectRedis ==
    /\ spc = "connect"
    /\ \E ok \in BOOLEAN :
        IF ok
        THEN StepDone("connect", <<>>, status)
        ELSE spc' = "aborted" /\ UNCHANGED <<phases, inited, status, status_pub>>
    /\ UNCHANGED <<core_failed, workers, emitter_running, epc, hb_status, shutdown_log,
                   init_failed, sd_raised>>
    /\ UNCHANGED nonStartupVars

InitCoreServices ==
    /\ spc = "core"
    /\ \E outcome \in {"ok", "truth_raises", "heartbeat_raises"} :
        IF outcome = "ok"
        THEN /\ StepDone("core", <<>>, status)
             /\ workers' = [workers EXCEPT !["listener"] = "running"]
             /\ emitter_running' = TRUE
             /\ epc' = "check"
             /\ UNCHANGED core_failed
        ELSE /\ spc' = OnCoreFailure
             /\ core_failed' = TRUE
             /\ workers' = [workers EXCEPT !["listener"] =
                              IF outcome = "heartbeat_raises" THEN "running" ELSE "none"]
             /\ UNCHANGED <<phases, inited, emitter_running, epc, status, status_pub>>
    /\ UNCHANGED <<hb_status, shutdown_log,
                   init_failed, sd_raised>>
    /\ UNCHANGED nonStartupVars

InitFeedService ==
    /\ spc = "feed"
    /\ StepDone("feed", <<"feed_service_initialized">>, status)
    /\ UNCHANGED <<core_failed, workers, emitter_running, epc, hb_status, shutdown_log,
                   init_failed, sd_raised>>
    /\ UNCHANGED nonStartupVars

InitDiffTransformService ==
    /\ spc = "diff"
    /\ \E outcome \in {"no_symbols", "started", "error"} :
        /\ StepDone("diff",
                    CASE outcome = "no_symbols" -> <<>>
                      [] outcome = "started" -> <<"diff_transform_active">>
                      [] outcome = "error" -> <<"diff_transform_error">>,
                    CASE outcome = "no_symbols" -> status
                      [] outcome = "started" -> [status EXCEPT !["diff_transform"] = "active"]
                      [] outcome = "error" -> StatusAfterError(status, "diff_transform"))
        /\ init_failed' = IF outcome = "error" THEN init_failed \cup {"diff_transform"}
                          ELSE init_failed
        /\ workers' = [workers EXCEPT !["diff"] =
                         IF outcome = "started" THEN "running" ELSE "none"]
    /\ UNCHANGED <<core_failed, emitter_running, epc, hb_status, shutdown_log,
                   sd_raised>>
    /\ UNCHANGED nonStartupVars

InitRssFeeds ==
    /\ spc = "rss"
    /\ \E outcome \in {"no_config", "started", "error"} :
        /\ StepDone("rss", <<>>,
                    CASE outcome = "no_config" -> status
                      [] outcome = "started" -> [status EXCEPT !["rss_feeds"] = "ok"]
                      [] outcome = "error" -> StatusAfterError(status, "rss_feeds"))
        /\ init_failed' = IF outcome = "error" THEN init_failed \cup {"rss_feeds"}
                          ELSE init_failed
        /\ workers' = [workers EXCEPT !["rss"] =
                         IF outcome = "started" THEN "running" ELSE "none"]
    /\ UNCHANGED <<core_failed, emitter_running, epc, hb_status, shutdown_log,
                   sd_raised>>
    /\ UNCHANGED nonStartupVars

InitSyntheticSpotService ==
    /\ spc = "synth"
    /\ \E ok \in BOOLEAN :
        /\ StepDone("synth",
                    IF ok THEN <<"synthetic_spot_active">> ELSE <<"synthetic_spot_error">>,
                    IF ok THEN [status EXCEPT !["synthetic_spot"] = "active"]
                          ELSE StatusAfterError(status, "synthetic_spot"))
        /\ init_failed' = IF ok THEN init_failed ELSE init_failed \cup {"synthetic_spot"}
        /\ workers' = [workers EXCEPT !["synth"] = IF ok THEN "running" ELSE "none"]
    /\ UNCHANGED <<core_failed, emitter_running, epc, hb_status, shutdown_log,
                   sd_raised>>
    /\ UNCHANGED nonStartupVars

InitConvexity ==
    /\ spc = "convexity"
    /\ StepDone("convexity", <<>>, status)
    /\ UNCHANGED <<core_failed, workers, emitter_running, epc, hb_status, shutdown_log,
                   init_failed, sd_raised>>
    /\ UNCHANGED nonStartupVars

InitEntityBridge ==
    /\ spc = "entity"
    /\ \E seat_info \in BOOLEAN :
        StepDone("entity", IF seat_info
                           THEN <<"entity_seat_prepared", "entity_arrival_announced">>
                           ELSE <<"entity_bridge_skipped">>,
                  status)
    /\ UNCHANGED <<core_failed, workers, emitter_running, epc, hb_status, shutdown_log,
                   init_failed, sd_raised>>
    /\ UNCHANGED nonStartupVars

InitRuntimeLoop ==
    /\ spc = "runtime"
    /\ StepDone("runtime", <<>>, status)
    /\ UNCHANGED <<core_failed, workers, emitter_running, epc, hb_status, shutdown_log,
                   init_failed, sd_raised>>
    /\ UNCHANGED nonStartupVars

PublishComplete ==
    /\ spc = "complete"
    /\ StepDone("complete", <<>>, status)
    /\ UNCHANGED <<core_failed, workers, emitter_running, epc, hb_status, shutdown_log,
                   init_failed, sd_raised>>
    /\ UNCHANGED nonStartupVars

\* the process lives until run() returns or raises: its threads are daemons
ProcessAlive == spc \notin {"aborted", "terminated"}

\* stop() of a worker clears its running flag and returns
SignalStop(w) == IF workers[w] = "running" THEN "stopping" ELSE workers[w]

\* startup_sequence.py:342-347  KeyboardInterrupt in the wait loop
Interrupt ==
    /\ spc = "running"
    /\ spc' = "notice"
    /\ UNCHANGED <<phases, inited, core_failed, workers, emitter_running, epc, hb_status,
                   shutdown_log,
                   status, status_pub, init_failed, sd_raised>>
    /\ UNCHANGED nonStartupVars

\* where control goes when an exception leaves the try block of the shutdown
\* handler: its finally block (startup_sequence.py:394-401)
OnShutdownErrorPropagates == "terminated"

OnShutdownError == "stop_heartbeat"

\* startup_sequence.py:350-358  neither redis.set nor redis.publish is guarded
ShutdownNotice ==
    /\ spc = "notice"
    /\ \E raised \in {"no", "set", "publish"} :
        /\ shutdown_log' = IF raised = "set" THEN shutdown_log
                           ELSE Append(shutdown_log, "notice")
        /\ spc' = IF raised = "no" THEN "final_heartbeat" ELSE OnShutdownError
        /\ sd_raised' = IF raised = "no" THEN sd_raised ELSE TRUE
    /\ UNCHANGED <<phases, inited, core_failed, workers, emitter_running, epc, hb_status,
                   status, status_pub, init_failed>>
    /\ UNCHANGED nonStartupVars

\* startup_sequence.py:361-373
\* an exception of redis.set is caught at 372-373 and the handler goes on
FinalHeartbeat ==
    /\ spc = "final_heartbeat"
    /\ \E raised \in BOOLEAN :
        /\ hb_status' = IF raised THEN hb_status ELSE "shutting_down"
        /\ shutdown_log' = IF raised THEN shutdown_log
                           ELSE Append(shutdown_log, "final_heartbeat")
    /\ spc' = "stop_rss"
    /\ UNCHANGED <<phases, inited, core_failed, workers, emitter_running, epc,
                   status, status_pub, init_failed, sd_raised>>
    /\ UNCHANGED nonStartupVars

\* startup_sequence.py:376-383  only when some ingestor was started
\* an exception of ingestor.stop() is caught at 382-383 and the handler goes on
StopRss ==
    /\ spc = "stop_rss"
    /\ \E raised \in BOOLEAN :
        /\ workers' = IF raised THEN workers
                      ELSE [workers EXCEPT !["rss"] = SignalStop("rss")]
        /\ shutdown_log' = IF workers["rss"] # "none" /\ ~raised
                           THEN Append(shutdown_log, "stop_rss") ELSE shutdown_log
    /\ spc' = "stop_diff"
    /\ UNCHANGED <<phases, inited, core_failed, emitter_running, epc, hb_status,
                   status, status_pub, init_failed, sd_raised>>
    /\ UNCHANGED nonStartupVars

\* startup_sequence.py:385-387  only when the diff service was created
\* diff_service.stop() is not guarded: an exception leaves the try block
StopDiff ==
    /\ spc = "stop_diff"
    /\ \E raised \in BOOLEAN :
        /\ workers' = IF raised THEN workers
                      ELSE [workers EXCEPT !["diff"] = SignalStop("diff")]
        /\ shutdown_log' = IF workers["diff"] # "none" /\ ~raised
                           THEN Append(shutdown_log, "stop_diff") ELSE shutdown_log
        /\ spc' = IF raised /\ workers["diff"] # "none" THEN OnShutdownError ELSE "grace"
        /\ sd_raised' = IF raised /\ workers["diff"] # "none" THEN TRUE ELSE sd_raised
    /\ UNCHANGED <<phases, inited, core_failed, emitter_running, epc, hb_status,
                   status, status_pub, init_failed>>
    /\ UNCHANGED nonStartupVars

\* startup_sequence.py:390-392  time.sleep(shutdown_delay)
GraceDelay ==
    /\ spc = "grace"
    /\ shutdown_log' = Append(shutdown_log, "grace")
    /\ spc' = "stop_heartbeat"
    /\ UNCHANGED <<phases, inited, core_failed, workers, emitter_running, epc, hb_status,
                   status, status_pub, init_failed, sd_raised>>
    /\ UNCHANGED nonStartupVars

\* startup_sequence.py:395-396, heartbeat_service.py:65-71, heartbeat_emitter.py:88-95
\* the join has a timeout, so stop() returns whether or not the thread has ended
StopHeartbeat ==
    /\ spc = "stop_heartbeat"
    /\ emitter_running' = FALSE
    /\ shutdown_log' = Append(shutdown_log, "stop_heartbeat")
    /\ spc' = "stop_truth"
    /\ UNCHANGED <<phases, inited, core_failed, workers, epc, hb_status,
                   status, status_pub, init_failed, sd_raised>>
    /\ UNCHANGED nonStartupVars

\* startup_sequence.py:397-398, truth_service.py:157-161
StopTruth ==
    /\ spc = "stop_truth"
    /\ workers' = [workers EXCEPT !["listener"] = SignalStop("listener")]
    /\ shutdown_log' = Append(shutdown_log, "stop_truth")
    /\ spc' = "stop_synth"
    /\ UNCHANGED <<phases, inited, core_failed, emitter_running, epc, hb_status,
                   status, status_pub, init_failed, sd_raised>>
    /\ UNCHANGED nonStartupVars

\* startup_sequence.py:399-401  run() returns
StopSynth ==
    /\ spc = "stop_synth"
    /\ workers' = [workers EXCEPT !["synth"] = SignalStop("synth")]
    /\ shutdown_log' = IF workers["synth"] # "none"
                       THEN Append(shutdown_log, "stop_synth") ELSE shutdown_log
    /\ spc' = "terminated"
    /\ UNCHANGED <<phases, inited, core_failed, emitter_running, epc, hb_status,
                   status, status_pub, init_failed, sd_raised>>
    /\ UNCHANGED nonStartupVars

\* a worker thread whose flag was cleared leaves its loop
WorkerExit(w) ==
    /\ ProcessAlive
    /\ workers[w] = "stopping"
    /\ workers' = [workers EXCEPT ![w] = "exited"]
    /\ UNCHANGED <<spc, phases, inited, core_failed, emitter_running, epc, hb_status,
                   shutdown_log,
                   status, status_pub, init_failed, sd_raised>>
    /\ UNCHANGED nonStartupVars

\* heartbeat_emitter.py:66  while self.running
EmitterCheck ==
    /\ ProcessAlive
    /\ epc = "check"
    /\ epc' = IF emitter_running THEN "write" ELSE "done"
    /\ UNCHANGED <<spc, phases, inited, core_failed, workers, emitter_running, hb_status,
                   shutdown_log,
                   status, status_pub, init_failed, sd_raised>>
    /\ UNCHANGED nonStartupVars

\* heartbeat_emitter.py:67-82  redis.set(key, payload with status "alive")
EmitterWrite ==
    /\ ProcessAlive
    /\ epc = "write"
    /\ hb_status' = "alive"
    /\ epc' = "sleep"
    /\ UNCHANGED <<spc, phases, inited, core_failed, workers, emitter_running,
                   shutdown_log,
                   status, status_pub, init_failed, sd_raised>>
    /\ UNCHANGED nonStartupVars

\* heartbeat_emitter.py:83  time.sleep(interval) returns
EmitterWake ==
    /\ ProcessAlive
    /\ epc = "sleep"
    /\ epc' = "check"
    /\ UNCHANGED <<spc, phases, inited, core_failed, workers, emitter_running, hb_status,
                   shutdown_log,
                   status, status_pub, init_failed, sd_raised>>
    /\ UNCHANGED nonStartupVars

NextStartup ==
    \/ ConnectRedis
    \/ InitCoreServices
    \/ InitFeedService
    \/ InitDiffTransformService
    \/ InitRssFeeds
    \/ InitSyntheticSpotService
    \/ InitConvexity
    \/ InitEntityBridge
    \/ InitRuntimeLoop
    \/ PublishComplete
    \/ Interrupt
    \/ ShutdownNotice
    \/ FinalHeartbeat
    \/ StopRss
    \/ StopDiff
    \/ GraceDelay
    \/ StopHeartbeat
    \/ StopTruth
    \/ StopSynth
    \/ \E w \in WorkerNames : WorkerExit(w)
    \/ EmitterCheck
    \/ EmitterWrite
    \/ EmitterWake

(***************************************************************************)
(* Worker loops.  Every worker is a thread running `while self.running:`   *)
(* around a cycle and a sleep; the classes differ in where the flag is     *)
(* set and in which exceptions of a cycle are caught inside the loop.      *)
(* A behaviour follows either the raw chain workers that                   *)
(* FeedOrchestrationService._init_raw_chain_feeds creates for one          *)
(* chainfeed.default_symbols, or one worker of another class.              *)
(***************************************************************************)
MaxClock == 1      \* the wall clock runs from 0 to MaxClock
MaxFails == 3      \* failed cycles in a row are counted up to MaxFails

WorkerIds == {1, 2}

Kinds == {"raw", "diff", "rss", "feed", "synth", "emitter", "monitor",
          "truth_service", "truth_listener"}

\* configurations of chainfeed.default_symbols
SymbolLists == {<<"SPX">>, <<"SPX", "NDX">>, <<"SPX", "spx">>, <<"SPX", "SPX">>}
ChainSymbols == {"SPX", "NDX"}

\* raw_chain_ingestor.py:30  symbol.upper()
Upper(sym) == IF sym = "spx" THEN "SPX" ELSE IF sym = "ndx" THEN "NDX" ELSE sym

NoFrame == <<>>

\* the payload of a raw chain snapshot: a chain feed of `count` contracts
\* whose frame_ts is the time of its construction
ChainRawPayload(symbol, count, t) == <<t, count>>

\* polygon_adapter.py:67-98  the snapshot of a request that succeeded, and {}
\* for a request that failed: the adapter logs every error and returns {}
FetchOutcomes == {"ok", "http_error", "timeout", "bad_response"}

FetchChainSnapshot(outcome) ==
    IF outcome = "ok" THEN [options |-> 1] ELSE [options |-> 0]

\* polygon_chain_normalizer.py:17-47  one contract per entry of "options"
Normalize(vendor_payload) == vendor_payload.options

NoStatus == "none"

\* one more failed cycle in a row
OneMoreFailure(n) == IF n < MaxFails THEN n + 1 ELSE n

MaxCyclesSeen == 2    \* completed cycles are counted up to MaxCyclesSeen

\* one more completed cycle of a worker stopped before its run() began
CycleDone(n) == IF n = 0 THEN 0 ELSE IF n <= MaxCyclesSeen THEN n + 1 ELSE n

\* the value of `running` a constructor leaves
FlagAtInit(kind) == kind \in {"rss", "feed"}

\* start() sets `running` before it starts the thread
StartSetsFlag(kind) == kind \in {"synth", "emitter", "truth_service", "truth_listener"}

\* the thread sets `running` itself when it begins to run
RunSetsFlag(kind) == kind \in {"raw", "diff", "monitor"}

\* where a cycle can raise: "inner" is inside the per-item handler of the
\* cycle, "outer" a bus operation of the cycle outside it
FailurePlaces == {"inner", "outer"}

\* the exception is caught inside the loop, which goes on
CaughtInLoop(kind, place) ==
    \/ kind \in {"raw", "diff", "feed", "synth", "emitter", "truth_service"}
    \/ place = "inner"

\* the handler that ends the loop also clears the flag
ClearsFlagOnError(kind) == kind \in {"monitor", "truth_listener"}

IdleWorkers ==
    /\ wk_kind = [w \in WorkerIds |-> "none"]
    /\ wk_key = [w \in WorkerIds |-> ""]
    /\ wk_pc = [w \in WorkerIds |-> "none"]
    /\ wk_flag = [w \in WorkerIds |-> FALSE]
    /\ wk_payload = [w \in WorkerIds |-> NoFrame]
    /\ wk_stopped = [w \in WorkerIds |-> FALSE]
    /\ wk_late = [w \in WorkerIds |-> FALSE]
    /\ wk_early = [w \in WorkerIds |-> 0]
    /\ raw_key = [k \in ChainSymbols |-> NoFrame]
    /\ clk = 0
    /\ notice_key = FALSE
    /\ late_write = FALSE
    /\ wk_failed = FALSE
    /\ wk_fails = 0
    /\ status_key = [k \in ChainSymbols |-> NoStatus]

\* feed_orchestration_service.py:183-187  one RawChainIngestor per entry of
\* default_symbols, constructed (raw_chain_ingestor.py:26-57)
RawWorkers(symbols) ==
    [kind |-> [w \in WorkerIds |-> IF w <= Len(symbols) THEN "raw" ELSE "none"],
     key |-> [w \in WorkerIds |-> IF w <= Len(symbols) THEN Upper(symbols[w]) ELSE ""]]

OneWorker(kind) ==
    [kind |-> [w \in WorkerIds |-> IF w = 1 THEN kind ELSE "none"],
     key |-> [w \in WorkerIds |-> IF w = 1 /\ kind = "feed" THEN "SPX" ELSE ""]]

InitWorkers ==
    /\ \E sc \in {RawWorkers(symbols) : symbols \in SymbolLists}
                 \cup {OneWorker(kind) : kind \in Kinds \ {"raw"}} :
          /\ wk_kind = sc.kind
          /\ wk_key = sc.key
    /\ wk_pc = [w \in WorkerIds |-> IF wk_kind[w] = "none" THEN "none" ELSE "new"]
    /\ wk_flag = [w \in WorkerIds |-> FlagAtInit(wk_kind[w])]
    /\ wk_payload = [w \in WorkerIds |-> NoFrame]
    /\ wk_stopped = [w \in WorkerIds |-> FALSE]
    /\ wk_late = [w \in WorkerIds |-> FALSE]
    /\ wk_early = [w \in WorkerIds |-> 0]
    /\ raw_key = [k \in ChainSymbols |-> NoFrame]
    /\ clk = 0
    /\ notice_key = FALSE
    /\ late_write = FALSE
    /\ wk_failed = FALSE
    /\ wk_fails = 0
    /\ status_key = [k \in ChainSymbols |-> NoStatus]

\* start(): Thread.start(), after setting the flag in the classes that do
\* (synthetic_spot_service.py:51-55, heartbeat_emitter.py:49-57,
\* truth_service.py:137-139, truth_listener.py:51-57, heartbeat_service.py:58)
WkStart(w) ==
    /\ wk_pc[w] = "new"
    /\ wk_flag' = [wk_flag EXCEPT ![w] = StartSetsFlag(wk_kind[w]) \/ wk_flag[w]]
    /\ wk_pc' = [wk_pc EXCEPT ![w] = "started"]
    /\ UNCHANGED <<wk_kind, wk_key, wk_payload, wk_stopped, wk_late, wk_early, raw_key, clk,
                   notice_key, late_write,
                   wk_failed, wk_fails, status_key>>
    /\ UNCHANGED nonWorkerVars

\* the thread begins its target: raw_chain_ingestor.py:66 and
\* diff_transform_service.py:26 set running = True; heartbeat_monitor.py:57-60
\* returns when the flag is already set and sets it otherwise
WkBegin(w) ==
    /\ wk_pc[w] = "started"
    /\ IF wk_kind[w] = "monitor" /\ wk_flag[w]
       THEN /\ wk_pc' = [wk_pc EXCEPT ![w] = "exited"]
            /\ UNCHANGED wk_flag
       ELSE /\ wk_pc' = [wk_pc EXCEPT ![w] = "top"]
            /\ wk_flag' = [wk_flag EXCEPT ![w] = RunSetsFlag(wk_kind[w]) \/ wk_flag[w]]
    /\ UNCHANGED <<wk_kind, wk_key, wk_payload, wk_stopped, wk_late, wk_early, raw_key, clk,
                   notice_key, late_write,
                   wk_failed, wk_fails, status_key>>
    /\ UNCHANGED nonWorkerVars

\* `while self.running:` at the top of a cycle
WkTop(w) ==
    /\ wk_pc[w] = "top"
    /\ wk_pc' = [wk_pc EXCEPT ![w] = IF wk_flag[w] THEN "body" ELSE "exited"]
    /\ wk_late' = [wk_late EXCEPT ![w] = wk_late[w] \/ (wk_flag[w] /\ wk_stopped[w])]
    /\ UNCHANGED wk_early
    /\ UNCHANGED <<wk_kind, wk_key, wk_flag, wk_payload, wk_stopped, raw_key, clk,
                   notice_key, late_write,
                   wk_failed, wk_fails, status_key>>
    /\ UNCHANGED nonWorkerVars

\* the cycle of a worker other than a raw chain worker runs to its sleep; the
\* feed status worker sets truth:feed:{symbol}:status to "active"
\* (feed_orchestration_service.py:45-53)
WkCycle(w) ==
    /\ wk_pc[w] = "body"
    /\ wk_kind[w] # "raw"
    /\ wk_pc' = [wk_pc EXCEPT ![w] = "sleep"]
    /\ status_key' = IF wk_kind[w] = "feed"
                     THEN [status_key EXCEPT ![wk_key[w]] = "active"]
                     ELSE status_key
    /\ wk_early' = [wk_early EXCEPT ![w] = CycleDone(wk_early[w])]
    /\ UNCHANGED <<wk_kind, wk_key, wk_flag, wk_payload, wk_stopped, wk_late, raw_key, clk,
                   notice_key, late_write,
                   wk_failed, wk_fails>>
    /\ UNCHANGED nonWorkerVars

\* the cycle raises: caught inside the loop the worker goes to its sleep,
\* otherwise the loop ends (rss_feed_ingestor.py:134 uncaught,
\* heartbeat_monitor.py:70-72 and truth_listener.py:106-108 outside the loop)
WkCycleFails(w) ==
    /\ wk_pc[w] \in {"body", "publish"}
    /\ \E place \in FailurePlaces :
        IF CaughtInLoop(wk_kind[w], place)
        THEN /\ wk_pc' = [wk_pc EXCEPT ![w] = "sleep"]
             /\ UNCHANGED wk_flag
        ELSE /\ wk_pc' = [wk_pc EXCEPT ![w] = "exited"]
             /\ wk_flag' = [wk_flag EXCEPT ![w] =
                              IF ClearsFlagOnError(wk_kind[w]) THEN FALSE ELSE wk_flag[w]]
    /\ wk_payload' = [wk_payload EXCEPT ![w] = NoFrame]
    /\ wk_fails' = IF w = 1 /\ wk_kind[w] = "raw" THEN OneMoreFailure(wk_fails) ELSE wk_fails
    /\ wk_failed' = IF w = 1 THEN FALSE ELSE wk_failed
    /\ UNCHANGED <<wk_kind, wk_key, wk_stopped, wk_late, wk_early, raw_key, clk, notice_key,
                   late_write, status_key>>
    /\ UNCHANGED nonWorkerVars

\* raw_chain_ingestor.py:72-80  fetch, normalize, build the payload; a fetch
\* that failed comes back from the adapter as {} and is normalized like any
\* other snapshot (a normalizer that raises is WkCycleFails)
RawFetch(w) ==
    /\ wk_pc[w] = "body"
    /\ wk_kind[w] = "raw"
    /\ \E outcome \in FetchOutcomes :
          /\ wk_payload' = [wk_payload EXCEPT ![w] =
                 ChainRawPayload(wk_key[w], Normalize(FetchChainSnapshot(outcome)), clk)]
          /\ wk_failed' = IF w = 1 THEN outcome # "ok" ELSE wk_failed
    /\ wk_pc' = [wk_pc EXCEPT ![w] = "publish"]
    /\ UNCHANGED <<wk_kind, wk_key, wk_flag, wk_stopped, wk_late, wk_early, raw_key, clk, notice_key,
                   late_write, wk_fails, status_key>>
    /\ UNCHANGED nonWorkerVars

\* raw_chain_ingestor.py:81  redis.setex(self.key, self.ttl, json_data)
RawSetex(w) ==
    /\ wk_pc[w] = "publish"
    /\ raw_key' = [raw_key EXCEPT ![wk_key[w]] = wk_payload[w]]
    /\ late_write' = (late_write \/ notice_key)
    /\ wk_payload' = [wk_payload EXCEPT ![w] = NoFrame]
    /\ wk_pc' = [wk_pc EXCEPT ![w] = "sleep"]
    /\ wk_fails' = IF w # 1 THEN wk_fails
                   ELSE IF wk_failed THEN OneMoreFailure(wk_fails) ELSE 0
    /\ wk_failed' = IF w = 1 THEN FALSE ELSE wk_failed
    /\ wk_early' = [wk_early EXCEPT ![w] = CycleDone(wk_early[w])]
    /\ UNCHANGED <<wk_kind, wk_key, wk_flag, wk_stopped, wk_late, clk, notice_key,
                   status_key>>
    /\ UNCHANGED nonWorkerVars

\* time.sleep(interval) returns
WkWake(w) ==
    /\ wk_pc[w] = "sleep"
    /\ wk_pc' = [wk_pc EXCEPT ![w] = "top"]
    /\ UNCHANGED <<wk_kind, wk_key, wk_flag, wk_payload, wk_stopped, wk_late, wk_early, raw_key, clk,
                   notice_key, late_write,
                   wk_failed, wk_fails, status_key>>
    /\ UNCHANGED nonWorkerVars

\* stop(): running = False (raw_chain_ingestor.py:93-95 through
\* feed_orchestration_service.py:251-252, diff_transform_service.py:51-53, ...)
WkStop(w) ==
    /\ wk_pc[w] \notin {"none", "new"}
    /\ wk_flag' = [wk_flag EXCEPT ![w] = FALSE]
    /\ wk_stopped' = [wk_stopped EXCEPT ![w] = TRUE]
    /\ wk_early' = [wk_early EXCEPT ![w] =
                      IF wk_pc[w] = "started" /\ wk_early[w] = 0 THEN 1
                      ELSE wk_early[w]]
    /\ UNCHANGED <<wk_kind, wk_key, wk_pc, wk_payload, wk_late, raw_key, clk, notice_key,
                   late_write,
                   wk_failed, wk_fails, status_key>>
    /\ UNCHANGED nonWorkerVars

ClockTick ==
    /\ clk < MaxClock
    /\ clk' = clk + 1
    /\ UNCHANGED <<wk_kind, wk_key, wk_pc, wk_flag, wk_payload, wk_stopped, wk_late, wk_early,
                   raw_key, notice_key, late_write,
                   wk_failed, wk_fails, status_key>>
    /\ UNCHANGED nonWorkerVars

\* startup_sequence.py:350-358  the shutdown handler writes the notice; it
\* holds no reference to a raw chain worker
PublishShutdownNotice ==
    /\ ~notice_key
    /\ notice_key' = TRUE
    /\ UNCHANGED <<wk_kind, wk_key, wk_pc, wk_flag, wk_payload, wk_stopped, wk_late, wk_early,
                   raw_key, clk, late_write,
                   wk_failed, wk_fails, status_key>>
    /\ UNCHANGED nonWorkerVars

NextWorkers ==
    \/ \E w \in WorkerIds : WkStart(w)
    \/ \E w \in WorkerIds : WkBegin(w)
    \/ \E w \in WorkerIds : WkTop(w)
    \/ \E w \in WorkerIds : WkCycle(w)
    \/ \E w \in WorkerIds : WkCycleFails(w)
    \/ \E w \in WorkerIds : RawFetch(w)
    \/ \E w \in WorkerIds : RawSetex(w)
    \/ \E w \in WorkerIds : WkWake(w)
    \/ \E w \in WorkerIds : WkStop(w)
    \/ ClockTick
    \/ PublishShutdownNotice

(***************************************************************************)
(* Diff transform worker: one cycle of _compute_and_publish_diff for one   *)
(* symbol, against a full-frame builder that writes truth:chain:full:{SYM} *)
(* and :prev from outside.  A frame is its set of contracts, at most one   *)
(* per (contract_type, strike, expiry).  ChainFeed.to_diff is not part of  *)
(* the sources; it is taken from the specification of the diff frame.      *)
(***************************************************************************)
MaxFrameTs == 3        \* frames the builder stores in the model

ContractKeys == {<<"call", 100, "2025-01-17">>, <<"put", 100, "2025-01-17">>}
ContractFields == {"bid"}
Bids == {1, 2}

Contracts == [key : ContractKeys, bid : Bids]

\* the frames: sets of contracts with pairwise different keys
Frames == {f \in SUBSET Contracts : \A c1, c2 \in f : c1.key = c2.key => c1 = c2}

\* what the bus holds under a frame key and under the diff key
Stored(frame, ts) == [present |-> TRUE, contracts |-> frame, frame_ts |-> ts]
Missing == [present |-> FALSE, contracts |-> {}, frame_ts |-> 0]
NoDiff == [present |-> FALSE, added |-> {}, removed |-> {}, changed |-> {}]

HasKey(frame, k) == \E c \in frame : c.key = k
ContractAt(frame, k) == CHOOSE c \in frame : c.key = k

\* the fields of a contract present in both frames whose values differ, each
\* with its old and its new value
FieldChanges(p, c) == {<<f, p[f], c[f]>> : f \in {g \in ContractFields : p[g] # c[g]}}

\* current.to_diff(previous): contracts indexed by (contract_type, strike,
\* expiry); added, removed, and the field changes of those in both
ToDiff(current, previous) ==
    [present |-> TRUE,
     added |-> {c \in current : ~HasKey(previous, c.key)},
     removed |-> {p \in previous : ~HasKey(current, p.key)},
     changed |-> {[key |-> c.key, field_changes |-> FieldChanges(ContractAt(previous, c.key), c)] :
                    c \in {x \in current : HasKey(previous, x.key)
                                           /\ ContractAt(previous, x.key) # x}}]

\* diff_transform_service.py:47  diff_feed = current.to_diff(previous)
DiffOfSwapped(current, previous) == ToDiff(previous, current)

DiffOf(current, previous) == ToDiff(current, previous)

IdleDiff ==
    /\ full_key = Missing
    /\ prev_key = Missing
    /\ diff_key = NoDiff
    /\ dpc = "idle"
    /\ d_cur = Missing
    /\ d_prev = Missing
    /\ dclk = 0

InitDiff == IdleDiff

\* the full-frame builder stores a new frame, of a frame_ts later than every
\* frame before it, under truth:chain:full:{SYM} and moves the frame that was
\* there to truth:chain:full:{SYM}:prev, in one transaction
BuilderSetFull ==
    /\ dclk < MaxFrameTs
    /\ \E f \in Frames : full_key' = Stored(f, dclk + 1)
    /\ prev_key' = full_key
    /\ dclk' = dclk + 1
    /\ UNCHANGED <<diff_key, dpc, d_cur, d_prev>>
    /\ UNCHANGED nonDiffVars

\* diff_transform_service.py:41  redis.exists(latest_key)
DiffExistsLatest ==
    /\ dpc = "idle"
    /\ dpc' = IF full_key.present THEN "exists_prev" ELSE "idle"
    /\ UNCHANGED <<full_key, prev_key, diff_key, d_cur, d_prev, dclk>>
    /\ UNCHANGED nonDiffVars

\* diff_transform_service.py:41-42  redis.exists(prev_key), else return
DiffExistsPrev ==
    /\ dpc = "exists_prev"
    /\ dpc' = IF prev_key.present THEN "get_latest" ELSE "idle"
    /\ UNCHANGED <<full_key, prev_key, diff_key, d_cur, d_prev, dclk>>
    /\ UNCHANGED nonDiffVars

\* diff_transform_service.py:44  current = ChainFeed.deserialize(redis.get(latest_key))
DiffGetLatest ==
    /\ dpc = "get_latest"
    /\ d_cur' = full_key
    /\ dpc' = "get_prev"
    /\ UNCHANGED <<full_key, prev_key, diff_key, d_prev, dclk>>
    /\ UNCHANGED nonDiffVars

\* diff_transform_service.py:45  previous = ChainFeed.deserialize(redis.get(prev_key))
DiffGetPrev ==
    /\ dpc = "get_prev"
    /\ d_prev' = prev_key
    /\ dpc' = "publish"
    /\ UNCHANGED <<full_key, prev_key, diff_key, d_cur, dclk>>
    /\ UNCHANGED nonDiffVars

\* diff_transform_service.py:47-49  redis.set(diff_key, diff_feed.persistable())
DiffPublish ==
    /\ dpc = "publish"
    /\ diff_key' = DiffOf(d_cur.contracts, d_prev.contracts)
    /\ dpc' = "idle"
    /\ UNCHANGED <<full_key, prev_key, d_cur, d_prev, dclk>>
    /\ UNCHANGED nonDiffVars

NextDiff ==
    \/ BuilderSetFull
    \/ DiffExistsLatest
    \/ DiffExistsPrev
    \/ DiffGetLatest
    \/ DiffGetPrev
    \/ DiffPublish

(***************************************************************************)
(* redis_set_with_policy (utils/redis_client.py) called with keys of every *)
(* policy prefix and with keys that match none.                            *)
(***************************************************************************)
MaxCalls == 4     \* calls of redis_set_with_policy in a behaviour

\* prefixes of keys outside the policy: "truth:" and a key without a colon
OtherPrefixes == {"truth:", ""}
PolicyKeys == {<<p, "key">> : p \in PolicyPrefixes \cup OtherPrefixes}

IdlePolicy ==
    /\ pstore = [k \in PolicyKeys |-> Absent]
    /\ pcalls = 0
    /\ psets = 0

InitPolicy == IdlePolicy

\* redis_client.py:15-24  redis_set_with_policy(redis, key, value)
RedisSetWithPolicy(k) ==
    /\ pcalls < MaxCalls
    /\ pcalls' = pcalls + 1
    /\ pstore' = [pstore EXCEPT ![k] = PolicyTTL(k[1])]
    /\ psets' = psets + 1
    /\ UNCHANGED nonPolicyVars

NextPolicy == \E k \in PolicyKeys : RedisSetWithPolicy(k)

(***************************************************************************)
(* Market state validator (core/startup/services/market_state_validator.py)*)
(* asked at a clock time of US/Eastern, given by its weekday and its time  *)
(* of day in seconds.                                                      *)
(***************************************************************************)
open_time == 34200      \* market_state_validator.py:54  time(9, 30)
close_time == 57600     \* market_state_validator.py:55  time(16, 0)

WeekDays == 0..6
ClockSamples == {0, 34199, 34200, 34201, 45000, 57599, 57600, 57601, 86399}
ValidatorSymbols == {"SPX", "AAPL"}

NoResult == [valid |-> FALSE, reason |-> "none"]

\* market_state_validator.py:79-82
IsWeeklyOptionsSymbol(symbol) == symbol \in {"SPX", "SPY", "ES", "NDX", "QQQ", "NQ"}

\* market_state_validator.py:62  current_time > close_time
AfterCloseInclusive(current_time) == current_time >= close_time

AfterClose(current_time) == current_time > close_time

\* market_state_validator.py:45-76
ValidateResult(weekday, current_time, symbol) ==
    IF weekday >= 5 THEN [valid |-> FALSE, reason |-> "weekend"]
    ELSE IF current_time < open_time THEN [valid |-> FALSE, reason |-> "pre-market"]
    ELSE IF AfterClose(current_time) THEN [valid |-> FALSE, reason |-> "post-market"]
    ELSE IF IsWeeklyOptionsSymbol(symbol) /\ weekday = 4 /\ current_time > close_time
         THEN [valid |-> FALSE, reason |-> "weekly expired"]
    ELSE [valid |-> TRUE, reason |-> "open"]

IdleValidator ==
    /\ v_day = 0
    /\ v_sec = 0
    /\ v_sym = ""
    /\ v_result = NoResult

InitValidator ==
    /\ v_day \in WeekDays
    /\ v_sec \in ClockSamples
    /\ v_sym \in ValidatorSymbols
    /\ v_result = NoResult

\* market_state_validator.py:34-76  validate_feed_availability(symbol)
ValidateFeedAvailability ==
    /\ v_result = NoResult
    /\ v_result' = ValidateResult(v_day, v_sec, v_sym)
    /\ UNCHANGED <<v_day, v_sec, v_sym>>
    /\ UNCHANGED nonValidatorVars

\* the caller has the result; the next call comes at another time, for a symbol
ValidatorReturn ==
    /\ v_result # NoResult
    /\ v_result' = NoResult
    /\ v_day' \in WeekDays
    /\ v_sec' \in ClockSamples
    /\ v_sym' \in ValidatorSymbols
    /\ UNCHANGED nonValidatorVars

NextValidator ==
    \/ ValidateFeedAvailability
    \/ ValidatorReturn

(***************************************************************************)
(* RSS worker (core/startup/services/rss_feed_ingestor.py): the handling   *)
(* of one entry of one source of a group.  A URL is its host part and its  *)
(* query parameters `url` and `q` ("" for a parameter that is absent).     *)
(***************************************************************************)
RssSources == {"alerts", "reuters"}

Url(host, url, q) == [host |-> host, url |-> url, q |-> q]
NoLink == Url("", "", "")

\* the links of the entries the sources deliver: direct links, Google Alerts
\* redirects with a target in `url` or `q` (plain or percent-encoded), a
\* redirect without target, and an entry without link
Links == {NoLink, Url("A", "", ""), Url("B", "", ""), Url("G", "A", ""), Url("G", "", "A"),
          Url("G", "%2541", ""), Url("G", "B", "A"), Url("G", "", "")}

\* urllib.parse.unquote on the tokens of the model
Unquote(t) == IF t = "%2541" THEN "%41" ELSE IF t = "%41" THEN "A" ELSE t

\* rss_feed_ingestor.py:158-159  parse_qs decodes the values of the query
ParseQs(link) == [url |-> Unquote(link.url), q |-> Unquote(link.q)]

\* rss_feed_ingestor.py:147-166  (NoLink stands for None)
ExtractTargetUrl(link, is_google) ==
    IF link = NoLink THEN NoLink
    ELSE IF is_google /\ ParseQs(link).url # "" THEN Url(Unquote(ParseQs(link).url), "", "")
    ELSE IF is_google /\ ParseQs(link).q # "" THEN Url(Unquote(ParseQs(link).q), "", "")
    ELSE link

\* hashlib.sha256(bytes).hexdigest(): one digest per input
Sha256(bytes) == <<"sha256", bytes>>

\* rss_feed_ingestor.py:98  uid = sha256(item_url)
UidOfSourceAndUrl(item_url, name) == Sha256(<<name, item_url>>)

UidOf(item_url, name) == Sha256(item_url)

MaxUrls == 2                  \* distinct canonical URLs the sources deliver in the model

MAX_AGE_DAYS == 3             \* rss_feed_ingestor.py:35
poll_interval_sec == 600      \* rss_feed_ingestor.py:43

\* hours between an entry's published date and the poll; NoDate: no date that
\* date_parser can parse
NoDate == -1
RssAges == {NoDate, 0, 72, 84, 96}

NoUid == <<"none">>

\* rss_feed_ingestor.py:81  (now - published_dt).days: the whole days
AgeDays(age_hours) == age_hours \div 24

\* rss_feed_ingestor.py:79-91  the freshness test; a date that cannot be
\* parsed raises, the handler logs and the entry goes on
Skipped(age_hours) == IF age_hours = NoDate THEN FALSE ELSE AgeDays(age_hours) > MAX_AGE_DAYS

IdleRss ==
    /\ rss_google = FALSE
    /\ rss_items = {}
    /\ rss_polled = {}
    /\ rss_pending = NoUid
    /\ rss_over_age = FALSE

InitRss ==
    /\ rss_google \in BOOLEAN
    /\ rss_items = {}
    /\ rss_polled = {}
    /\ rss_pending = NoUid
    /\ rss_over_age = FALSE

\* SET key value: the key holds the new payload only, and no time-to-live
RssSet(items, key, payload) ==
    {i \in items : i.key # key} \cup {[key |-> key, payload |-> payload, ttl |-> PERSISTENT_TTL]}

\* rss_feed_ingestor.py:75-110  one entry of source `name`: entries the
\* freshness test skips and entries without URL are left out, the others are
\* SET under truth:feed:rss:{group}:{uid}
RssEntry(name, link, age_hours) ==
    /\ rss_pending = NoUid
    /\ Cardinality(rss_polled \cup ({ExtractTargetUrl(link, rss_google)} \ {NoLink})) <= MaxUrls
    /\ LET item_url == ExtractTargetUrl(link, rss_google)
           written == ~Skipped(age_hours) /\ item_url # NoLink
       IN /\ rss_polled' = IF item_url # NoLink THEN rss_polled \cup {item_url}
                                                ELSE rss_polled
          /\ rss_items' = IF written
                          THEN RssSet(rss_items, UidOf(item_url, name),
                                      [source |-> name, url |-> item_url])
                          ELSE rss_items
          /\ rss_pending' = IF written THEN UidOf(item_url, name) ELSE NoUid
          /\ rss_over_age' = IF written /\ age_hours > MAX_AGE_DAYS * 24 THEN TRUE
                             ELSE rss_over_age
    /\ UNCHANGED rss_google
    /\ UNCHANGED nonRssVars

\* rss_feed_ingestor.py:111  redis.expire(redis_key, self.interval * 2)
RssExpireCmd ==
    /\ rss_pending # NoUid
    /\ rss_items' = {IF i.key = rss_pending THEN [i EXCEPT !.ttl = 2 * poll_interval_sec] ELSE i :
                        i \in rss_items}
    /\ rss_pending' = NoUid
    /\ UNCHANGED <<rss_google, rss_polled, rss_over_age>>
    /\ UNCHANGED nonRssVars

\* rss_feed_ingestor.py:111, 114-119  redis.expire raises (the connection
\* drops): the entry's handler counts the error and the loop goes on
RssExpireFails ==
    /\ rss_pending # NoUid
    /\ rss_pending' = NoUid
    /\ UNCHANGED <<rss_google, rss_items, rss_polled, rss_over_age>>
    /\ UNCHANGED nonRssVars

\* the expiry set at rss_feed_ingestor.py:111 passes: the bus drops the key
RssExpire ==
    /\ \E i \in rss_items : i.ttl # PERSISTENT_TTL /\ rss_items' = rss_items \ {i}
    /\ UNCHANGED <<rss_google, rss_polled, rss_pending, rss_over_age>>
    /\ UNCHANGED nonRssVars

NextRss ==
    \/ \E name \in RssSources, link \in Links, age_hours \in RssAges : RssEntry(name, link, age_hours)
    \/ RssExpireCmd
    \/ RssExpireFails
    \/ RssExpire

(***************************************************************************)
(* Heartbeat monitor (core/listeners/heartbeat_monitor.py) scanning the    *)
(* keys truth:heartbeat:{node_id} the emitters of the nodes write.  Time   *)
(* is kept as the age of every heartbeat, counted up to AgeCap, beyond     *)
(* which every comparison of the scan has the same outcome.                *)
(***************************************************************************)
TickSec == 5          \* seconds per tick of the clock
MaxScanTicks == 1     \* ticks that may pass during one scan
max_age == 20         \* heartbeat_service.py:39  max_heartbeat_age_sec

NoAge == -1           \* the node has no heartbeat key
AgeCap == max_age + TickSec * (1 + MaxScanTicks)

\* heartbeat_monitor.py:95  age > self.max_age
StaleInclusive(age) == age >= max_age

Stale(age) == age > max_age

IdleMonitor ==
    /\ hb_age = [n \in Nodes |-> NoAge]
    /\ emit_on = [n \in Nodes |-> FALSE]
    /\ mpc = "sleep"
    /\ m_todo = {}
    /\ m_elapsed = 0
    /\ scan_alerts = {}
    /\ late_alert = [n \in Nodes |-> FALSE]

\* heartbeat_service.py:42-58  emitter and monitor started
InitMonitor ==
    /\ hb_age = [n \in Nodes |-> NoAge]
    /\ emit_on = [n \in Nodes |-> TRUE]
    /\ mpc = "sleep"
    /\ m_todo = {}
    /\ m_elapsed = 0
    /\ scan_alerts = {}
    /\ late_alert = [n \in Nodes |-> FALSE]

\* the clock advances by TickSec
MonTick ==
    /\ mpc = "scan" => m_elapsed < MaxScanTicks * TickSec
    /\ hb_age' = [n \in Nodes |->
                    IF hb_age[n] = NoAge THEN NoAge
                    ELSE IF hb_age[n] + TickSec > AgeCap THEN AgeCap
                    ELSE hb_age[n] + TickSec]
    /\ m_elapsed' = IF mpc = "scan" THEN m_elapsed + TickSec ELSE m_elapsed
    /\ UNCHANGED <<emit_on, mpc, m_todo, scan_alerts, late_alert>>
    /\ UNCHANGED nonMonitorVars

\* heartbeat_emitter.py:66-76  redis.set(key, payload): the timestamp is now
MonEmitterWrite(n) ==
    /\ emit_on[n]
    /\ hb_age' = [hb_age EXCEPT ![n] = 0]
    /\ UNCHANGED <<emit_on, mpc, m_todo, m_elapsed, scan_alerts, late_alert>>
    /\ UNCHANGED nonMonitorVars

\* heartbeat_emitter.py:88-93  stop()
MonEmitterStop(n) ==
    /\ emit_on[n]
    /\ hb_age[n] # NoAge
    /\ emit_on' = [emit_on EXCEPT ![n] = FALSE]
    /\ UNCHANGED <<hb_age, mpc, m_todo, m_elapsed, scan_alerts, late_alert>>
    /\ UNCHANGED nonMonitorVars

\* heartbeat_monitor.py:78-79  keys = redis.keys("truth:heartbeat:*"); now
MonitorBegin ==
    /\ mpc = "sleep"
    /\ mpc' = "scan"
    /\ m_todo' = {n \in Nodes : hb_age[n] # NoAge}
    /\ m_elapsed' = 0
    /\ scan_alerts' = {}
    /\ UNCHANGED <<hb_age, emit_on, late_alert>>
    /\ UNCHANGED nonMonitorVars

\* heartbeat_monitor.py:82-102 and 107-115  one key of the scan: get, age,
\* and for a stale heartbeat publish on truth:alert:system and set the alert key
MonitorCheckKey(n) ==
    /\ mpc = "scan"
    /\ n \in m_todo
    /\ m_todo' = m_todo \ {n}
    /\ IF Stale(hb_age[n] - m_elapsed)
       THEN /\ scan_alerts' = scan_alerts \cup {n}
            /\ late_alert' = [late_alert EXCEPT ![n] = IF emit_on[n] THEN late_alert[n] ELSE TRUE]
       ELSE UNCHANGED <<scan_alerts, late_alert>>
    /\ UNCHANGED <<hb_age, emit_on, mpc, m_elapsed>>
    /\ UNCHANGED nonMonitorVars

\* heartbeat_monitor.py:66  the scan is over, time.sleep(check_interval)
MonitorEnd ==
    /\ mpc = "scan"
    /\ m_todo = {}
    /\ mpc' = "sleep"
    /\ UNCHANGED <<hb_age, emit_on, m_todo, m_elapsed, scan_alerts, late_alert>>
    /\ UNCHANGED nonMonitorVars

NextMonitor ==
    \/ MonTick
    \/ \E n \in Nodes : MonEmitterWrite(n)
    \/ \E n \in Nodes : MonEmitterStop(n)
    \/ MonitorBegin
    \/ \E n \in Nodes : MonitorCheckKey(n)
    \/ MonitorEnd

(***************************************************************************)
(* load_variant_config (utils/variant_config.py).                          *)
(*                                                                         *)
(* yaml.safe_load gives a mapping, a sequence, a scalar string, a number   *)
(* or None (an empty file).  A parsed document is a record: its kind, the  *)
(* keys of a mapping / the items of a sequence / the text of a string, and *)
(* the length of the list under 'symbols'.                                 *)
(***************************************************************************)
ConfigKeys == {"variant", "default_dte", "heartbeat", "symbols"}

ListItems == {"symbols", "SPX"}

Texts == {"symbols", "SPX symbols", "FatTail"}

Doc(kind, names, n) == [kind |-> kind, names |-> names, nsymbols |-> n]

Documents ==
    {Doc("dict", ks, 0) : ks \in SUBSET (ConfigKeys \ {"symbols"})}
        \cup {Doc("dict", ks \cup {"symbols"}, n) :
                ks \in SUBSET (ConfigKeys \ {"symbols"}), n \in 0..2}
        \cup {Doc("list", is, 0) : is \in SUBSET ListItems}
        \cup {Doc("str", {t}, 0) : t \in Texts}
        \cup {Doc("int", {}, 0), Doc("none", {}, 0)}

NoDocument == Doc("unread", {}, 0)

Outcome(kind, doc) == [outcome |-> kind, value |-> doc]

NotCalled == Outcome("not called", NoDocument)

\* str.__contains__: 'symbols' is a substring of the text
SubstringSymbols(text) == text \in {"symbols", "SPX symbols"}

\* variant_config.py:15  "symbols" not in config, by the type of config
SymbolsIn(config) ==
    CASE config.kind = "dict" -> "symbols" \in config.names
      [] config.kind = "list" -> "symbols" \in config.names
      [] config.kind = "str" -> \E t \in config.names : SubstringSymbols(t)
      [] OTHER -> FALSE

\* the operand of `in` is not a container: TypeError
InRaises(config) == config.kind \in {"int", "none"}

\* variant_config.py:8-18
LoadVariantConfig(exists, config) ==
    IF ~exists THEN Outcome("FileNotFoundError", NoDocument)
    ELSE IF InRaises(config) THEN Outcome("TypeError", NoDocument)
    ELSE IF ~SymbolsIn(config) THEN Outcome("ValueError", NoDocument)
    ELSE Outcome("return", config)

IdleConfig ==
    /\ cfg_exists = FALSE
    /\ cfg_content = NoDocument
    /\ cfg_result = NotCalled

\* a caller's path: missing, or a file of any parsed shape
InitConfig ==
    /\ cfg_exists \in BOOLEAN
    /\ cfg_content \in Documents
    /\ cfg_result = NotCalled

\* variant_config.py:8-18  one call of load_variant_config(path)
LoadCall ==
    /\ cfg_result = NotCalled
    /\ cfg_result' = LoadVariantConfig(cfg_exists, cfg_content)
    /\ UNCHANGED <<cfg_exists, cfg_content>>
    /\ UNCHANGED nonConfigVars

NextConfig == LoadCall

(***************************************************************************)
(* SyntheticSpotService (core/services/synthetic_spot_service.py) for one  *)
(* synthetic index of chainfeed.synthetic_indexes.  Prices are in          *)
(* thousandths, so that round(value, 2) has something to round.            *)
(***************************************************************************)
SYNTH == "SPX_synth"

\* chainfeed.synthetic_indexes[SYNTH].components: symbol -> weight * multiplier
Components == {"SPY", "ES"}
Factor(symbol) == IF symbol = "SPY" THEN 10 ELSE 1

NoSpot == -1
Spots == {0, 1004, 2000}      \* 0.000, 1.004 and 2.000

SPOT_TTL_SEC == 15            \* synthetic_spot_service.py:134

NoSpotKey == [present |-> FALSE, spot |-> 0, ttl |-> Absent]
NoValidation == [state |-> "none", missing |-> {}]

\* synthetic_spot_service.py:79-84  the symbols whose price is None
MissingOf(prices) == {c \in Components : prices[c] = NoSpot}

RECURSIVE SumOver(_, _)
SumOver(prices, cs) ==
    IF cs = {} THEN 0
    ELSE LET c == CHOOSE x \in cs : TRUE
         IN prices[c] * Factor(c) + SumOver(prices, cs \ {c})

\* synthetic_spot_service.py:75-84  total over the components that have a price
Total(prices) == SumOver(prices, Components \ MissingOf(prices))

\* synthetic_spot_service.py:129  round(value, 2), in thousandths
Round2(value) == ((value + 5) \div 10) * 10

PositiveAlways(total) == TRUE

\* synthetic_spot_service.py:99  if total > 0
Positive(total) == total > 0

IdleSynth ==
    /\ snap = [c \in Components |-> NoSpot]
    /\ syn_pc = "stopped"
    /\ syn_prices = [c \in Components |-> NoSpot]
    /\ spot_key = NoSpotKey
    /\ val_key = NoValidation

\* synthetic_spot_service.py:51-55  start(): running, the loop at its top
InitSynth ==
    /\ snap = [c \in Components |-> NoSpot]
    /\ syn_pc = "top"
    /\ syn_prices = [c \in Components |-> NoSpot]
    /\ spot_key = NoSpotKey
    /\ val_key = NoValidation

\* a feed worker stores, replaces or lets expire truth:feed:{c}:snapshot
SnapshotSet(c) ==
    /\ \E v \in Spots \cup {NoSpot} : snap' = [snap EXCEPT ![c] = v]
    /\ UNCHANGED <<syn_pc, syn_prices, spot_key, val_key>>
    /\ UNCHANGED nonSynthVars

\* the bus: SPOT_TTL_SEC pass and a key that has a time-to-live is dropped
SpotKeyExpires ==
    /\ spot_key.present
    /\ spot_key.ttl # PERSISTENT_TTL
    /\ spot_key' = NoSpotKey
    /\ UNCHANGED <<snap, syn_pc, syn_prices, val_key>>
    /\ UNCHANGED nonSynthVars

\* synthetic_spot_service.py:69-72  validate_feed_availability(synth_name)
SynthValidate ==
    /\ syn_pc = "top"
    /\ \E d \in WeekDays, t \in ClockSamples :
          syn_pc' = IF ValidateResult(d, t, SYNTH).valid THEN "read" ELSE "top"
    /\ UNCHANGED <<snap, syn_prices, spot_key, val_key>>
    /\ UNCHANGED nonSynthVars

\* synthetic_spot_service.py:79-84, 109-120  _get_price of every component
SynthGetPrices ==
    /\ syn_pc = "read"
    /\ syn_prices' = snap
    /\ syn_pc' = "decide"
    /\ UNCHANGED <<snap, spot_key, val_key>>
    /\ UNCHANGED nonSynthVars

\* synthetic_spot_service.py:87-100  partial and skip, or publish if total > 0
SynthDecide ==
    /\ syn_pc = "decide"
    /\ IF MissingOf(syn_prices) # {}
       THEN /\ val_key' = [state |-> "partial", missing |-> MissingOf(syn_prices)]
            /\ syn_pc' = "top"
       ELSE /\ val_key' = val_key
            /\ syn_pc' = IF Positive(Total(syn_prices)) THEN "set" ELSE "top"
    /\ UNCHANGED <<snap, syn_prices, spot_key>>
    /\ UNCHANGED nonSynthVars

\* synthetic_spot_service.py:133  redis.set(key, json.dumps(payload))
SynthSet ==
    /\ syn_pc = "set"
    /\ spot_key' = [present |-> TRUE, spot |-> Round2(Total(syn_prices)),
                    ttl |-> PERSISTENT_TTL]
    /\ syn_pc' = "expire"
    /\ UNCHANGED <<snap, syn_prices, val_key>>
    /\ UNCHANGED nonSynthVars

\* synthetic_spot_service.py:134  redis.expire(key, 15)
SynthExpire ==
    /\ syn_pc = "expire"
    /\ spot_key' = IF spot_key.present THEN [spot_key EXCEPT !.ttl = SPOT_TTL_SEC]
                   ELSE spot_key
    /\ syn_pc' = "validation"
    /\ UNCHANGED <<snap, syn_prices, val_key>>
    /\ UNCHANGED nonSynthVars

\* synthetic_spot_service.py:103-104, 134  redis.expire raises (the connection
\* drops): the exception ends the cycle in run's handler
SynthExpireFails ==
    /\ syn_pc = "expire"
    /\ syn_pc' = "top"
    /\ UNCHANGED <<snap, syn_prices, spot_key, val_key>>
    /\ UNCHANGED nonSynthVars

\* synthetic_spot_service.py:135  _publish_validation(synth_name, "ok", ...)
SynthPublishOk ==
    /\ syn_pc = "validation"
    /\ val_key' = [state |-> "ok", missing |-> {}]
    /\ syn_pc' = "top"
    /\ UNCHANGED <<snap, syn_prices, spot_key>>
    /\ UNCHANGED nonSynthVars

NextSynth ==
    \/ \E c \in Components : SnapshotSet(c)
    \/ SpotKeyExpires
    \/ SynthValidate
    \/ SynthGetPrices
    \/ SynthDecide
    \/ SynthSet
    \/ SynthExpire
    \/ SynthExpireFails
    \/ SynthPublishOk

(***************************************************************************)
(* FeedOrchestrationService._init_feeds                                    *)
(* (core/startup/services/feed_orchestration_service.py).                  *)
(***************************************************************************)
\* chainfeed.default_symbols
default_symbols == <<"SPX", "AAPL">>

\* feed_orchestration_service.py:143-147  valid = True; the call of
\* market_validator.validate_feed_availability(sym) is commented out
FeedValid(weekday, current_time, sym) == TRUE

IdleFeeds ==
    /\ fo_day = 0
    /\ fo_sec = 0
    /\ fo_todo = <<>>
    /\ fo_workers = {}
    /\ fo_validation = {}

\* feed_orchestration_service.py:124-133  the symbols are read, at any time
InitFeeds ==
    /\ fo_day \in WeekDays
    /\ fo_sec \in ClockSamples
    /\ fo_todo = default_symbols
    /\ fo_workers = {}
    /\ fo_validation = {}

\* feed_orchestration_service.py:135-165  one symbol of the for-loop
InitFeedsSymbol ==
    /\ fo_todo # <<>>
    /\ LET sym == Head(fo_todo)
       IN IF ~FeedValid(fo_day, fo_sec, sym)
          THEN /\ fo_validation' = fo_validation \cup {sym}
               /\ fo_workers' = fo_workers
          ELSE /\ fo_workers' = fo_workers \cup {sym}
               /\ fo_validation' = fo_validation
    /\ fo_todo' = Tail(fo_todo)
    /\ UNCHANGED <<fo_day, fo_sec>>
    /\ UNCHANGED nonFeedsVars

NextFeeds == InitFeedsSymbol

(***************************************************************************)
(* Polygon chain normalizer: vendor payload -> list of OptionContract        *)
(* (core/ingestors/normalizers/polygon_chain_normalizer.py,                  *)
(* core/models/chain_models.py).                                            *)
(***************************************************************************)
\* a key the vendor entry does not have, and a key holding JSON null
KeyMissing == "<absent>"
Null == "<null>"

\* vendor values of details.contract_type and details.expiration_date
VendorTypes == {"call", "PUT", KeyMissing, Null}
VendorExpiries == {"2025-01-17", KeyMissing, Null}

\* vendor values of details.strike_price: a JSON number, a string (val is the
\* number it spells, -1 when it spells none), null, or no key
VendorStrikes ==
    {[kind |-> "number", val |-> 100], [kind |-> "text", val |-> 105],
     [kind |-> "text", val |-> -1], [kind |-> "null", val |-> 0],
     [kind |-> "absent", val |-> 0]}

VendorEntries ==
    [contract_type : VendorTypes, strike_price : VendorStrikes,
     expiration_date : VendorExpiries]

MaxEntries == 2    \* entries of one vendor payload

Payloads == UNION {[1..n -> VendorEntries] : n \in 0..MaxEntries}

\* str.lower()
Lower(text) ==
    CASE text = "PUT" -> "put"
      [] OTHER -> text

\* d.get("contract_type", "").lower() raises on None
TypeRaises(o) == o.contract_type = Null

\* float(d.get("strike_price", 0)) raises on None and on a string that spells
\* no number
StrikeRaises(o) ==
    IF o.strike_price.kind = "null" THEN TRUE
    ELSE o.strike_price.kind = "text" /\ o.strike_price.val < 0

\* OptionContract(expiry=None) fails validation: expiry is a required str
\* (chain_models.py:22)
ExpiryRaises(o) == o.expiration_date \in {KeyMissing, Null}

EntryRaises(o) ==
    IF TypeRaises(o) THEN TRUE ELSE IF StrikeRaises(o) THEN TRUE ELSE ExpiryRaises(o)

\* the OptionContract built from one entry that does not raise
ContractOf(o) ==
    [contract_type |-> IF o.contract_type = KeyMissing THEN "" ELSE Lower(o.contract_type),
     strike |-> IF o.strike_price.kind = "absent" THEN 0 ELSE o.strike_price.val,
     expiry |-> o.expiration_date]

RECURSIVE ContractsOf(_)
ContractsOf(opts) ==
    IF opts = <<>> THEN <<>> ELSE <<ContractOf(Head(opts))>> \o ContractsOf(Tail(opts))

\* the loop has no handler: the first entry that raises ends the call
NormalizeOptions(opts) ==
    IF \E i \in DOMAIN opts : EntryRaises(opts[i])
    THEN [raised |-> TRUE, contracts |-> <<>>]
    ELSE [raised |-> FALSE, contracts |-> ContractsOf(opts)]

NotNormalized == [raised |-> FALSE, contracts |-> <<>>]

IdleNorm ==
    /\ nz_payload = <<>>
    /\ nz_pc = "idle"
    /\ nz_out = NotNormalized

InitNorm ==
    /\ nz_payload \in Payloads
    /\ nz_pc = "ready"
    /\ nz_out = NotNormalized

NormalizeCall ==
    /\ nz_pc = "ready"
    /\ nz_out' = NormalizeOptions(nz_payload)
    /\ nz_pc' = "done"
    /\ UNCHANGED nz_payload
    /\ UNCHANGED nonNormVars

NextNorm == NormalizeCall

(***************************************************************************)
(* HeartbeatEmitter under any sequence of start() and stop() calls           *)
(* (core/startup/heartbeat_emitter.py).                                      *)
(***************************************************************************)
MaxEmitterCalls == 5    \* start() and stop() calls of one behaviour

EmitterThreads == 1..MaxEmitterCalls

Alive(t) == em_pc[t] \notin {"none", "dead"}

\* heartbeat_emitter.py:43-44
IdleEmitter ==
    /\ em_running = FALSE
    /\ em_thread = 0
    /\ em_pc = [t \in EmitterThreads |-> "none"]
    /\ em_caller = "idle"
    /\ em_calls = 0
    /\ em_last = "none"
    /\ em_cycle = {}

InitEmitter == IdleEmitter

\* the flag a thread reads in `while self.running` (heartbeat_emitter.py:66):
\* the emitter's one flag, shared by every thread it has started
LoopFlag(t) == em_running

\* heartbeat_emitter.py:49-60
EmStart ==
    /\ em_caller = "idle"
    /\ em_calls < MaxEmitterCalls
    /\ em_calls' = em_calls + 1
    /\ em_last' = "start"
    /\ IF em_running
       THEN UNCHANGED <<em_running, em_thread, em_pc>>
       ELSE LET t == Cardinality({u \in EmitterThreads : em_pc[u] # "none"}) + 1
            IN  /\ em_running' = TRUE
                /\ em_thread' = t
                /\ em_pc' = [em_pc EXCEPT ![t] = "test"]
    /\ UNCHANGED <<em_caller, em_cycle>>
    /\ UNCHANGED nonEmitterVars

\* heartbeat_emitter.py:88-93  up to the join
EmStop ==
    /\ em_caller = "idle"
    /\ em_calls < MaxEmitterCalls
    /\ em_calls' = em_calls + 1
    /\ em_last' = "stop"
    /\ IF em_running
       THEN /\ em_running' = FALSE
            /\ em_cycle' = {}
            /\ em_caller' = IF Alive(em_thread) THEN "joining" ELSE "idle"
       ELSE UNCHANGED <<em_running, em_cycle, em_caller>>
    /\ UNCHANGED <<em_thread, em_pc>>
    /\ UNCHANGED nonEmitterVars

\* heartbeat_emitter.py:93  the thread ended within the timeout
EmJoinReturns ==
    /\ em_caller = "joining"
    /\ ~Alive(em_thread)
    /\ em_caller' = "idle"
    /\ UNCHANGED <<em_running, em_thread, em_pc, em_calls, em_last, em_cycle>>
    /\ UNCHANGED nonEmitterVars

\* heartbeat_emitter.py:93  join(timeout=self.interval) gives up while the
\* thread is still in redis.set or in its sleep of the same length
EmJoinTimesOut ==
    /\ em_caller = "joining"
    /\ em_pc[em_thread] \in {"publish", "sleep"}
    /\ em_caller' = "idle"
    /\ UNCHANGED <<em_running, em_thread, em_pc, em_calls, em_last, em_cycle>>
    /\ UNCHANGED nonEmitterVars

\* heartbeat_emitter.py:66  while self.running
EmLoopTest(t) ==
    /\ em_pc[t] = "test"
    /\ em_pc' = [em_pc EXCEPT ![t] = IF LoopFlag(t) THEN "publish" ELSE "dead"]
    /\ em_cycle' = IF LoopFlag(t) THEN em_cycle \cup {t} ELSE em_cycle
    /\ UNCHANGED <<em_running, em_thread, em_caller, em_calls, em_last>>
    /\ UNCHANGED nonEmitterVars

\* heartbeat_emitter.py:67-82
EmPublish(t) ==
    /\ em_pc[t] = "publish"
    /\ em_pc' = [em_pc EXCEPT ![t] = "sleep"]
    /\ UNCHANGED <<em_running, em_thread, em_caller, em_calls, em_last, em_cycle>>
    /\ UNCHANGED nonEmitterVars

\* heartbeat_emitter.py:83  time.sleep(self.interval) returns
EmSleepEnds(t) ==
    /\ em_pc[t] = "sleep"
    /\ em_pc' = [em_pc EXCEPT ![t] = "test"]
    /\ em_cycle' = em_cycle \ {t}
    /\ UNCHANGED <<em_running, em_thread, em_caller, em_calls, em_last>>
    /\ UNCHANGED nonEmitterVars

NextEmitter ==
    \/ EmStart
    \/ EmStop
    \/ EmJoinReturns
    \/ EmJoinTimesOut
    \/ \E t \in EmitterThreads : EmLoopTest(t)
    \/ \E t \in EmitterThreads : EmPublish(t)
    \/ \E t \in EmitterThreads : EmSleepEnds(t)

(***************************************************************************)
(* Specifications.                                                         *)
(***************************************************************************)
InitSpecTruth == InitTruth /\ IdleMesh /\ IdleTTL /\ IdleStartup /\ IdleWorkers /\ IdleDiff /\ IdlePolicy /\ IdleValidator /\ IdleRss /\ IdleMonitor /\ IdleConfig /\ IdleSynth /\ IdleFeeds /\ IdleNorm /\ IdleEmitter
InitSpecMesh == InitMesh /\ IdleTruth /\ IdleTTL /\ IdleStartup /\ IdleWorkers /\ IdleDiff /\ IdlePolicy /\ IdleValidator /\ IdleRss /\ IdleMonitor /\ IdleConfig /\ IdleSynth /\ IdleFeeds /\ IdleNorm /\ IdleEmitter
InitSpecTTL == InitTTL /\ IdleTruth /\ IdleMesh /\ IdleStartup /\ IdleWorkers /\ IdleDiff /\ IdlePolicy /\ IdleValidator /\ IdleRss /\ IdleMonitor /\ IdleConfig /\ IdleSynth /\ IdleFeeds /\ IdleNorm /\ IdleEmitter
InitSpecStartup == InitStartup /\ IdleTruth /\ IdleMesh /\ IdleTTL /\ IdleWorkers /\ IdleDiff /\ IdlePolicy /\ IdleValidator /\ IdleRss /\ IdleMonitor /\ IdleConfig /\ IdleSynth /\ IdleFeeds /\ IdleNorm /\ IdleEmitter
InitSpecWorkers == InitWorkers /\ IdleTruth /\ IdleMesh /\ IdleTTL /\ IdleStartup /\ IdleDiff /\ IdlePolicy /\ IdleValidator /\ IdleRss /\ IdleMonitor /\ IdleConfig /\ IdleSynth /\ IdleFeeds /\ IdleNorm /\ IdleEmitter
InitSpecDiff == InitDiff /\ IdleTruth /\ IdleMesh /\ IdleTTL /\ IdleStartup /\ IdleWorkers /\ IdlePolicy /\ IdleValidator /\ IdleRss /\ IdleMonitor /\ IdleConfig /\ IdleSynth /\ IdleFeeds /\ IdleNorm /\ IdleEmitter
InitSpecPolicy == InitPolicy /\ IdleTruth /\ IdleMesh /\ IdleTTL /\ IdleStartup /\ IdleWorkers /\ IdleDiff /\ IdleValidator /\ IdleRss /\ IdleMonitor /\ IdleConfig /\ IdleSynth /\ IdleFeeds /\ IdleNorm /\ IdleEmitter
InitSpecValidator == InitValidator /\ IdleTruth /\ IdleMesh /\ IdleTTL /\ IdleStartup /\ IdleWorkers /\ IdleDiff /\ IdlePolicy /\ IdleRss /\ IdleMonitor /\ IdleConfig /\ IdleSynth /\ IdleFeeds /\ IdleNorm /\ IdleEmitter
InitSpecRss == InitRss /\ IdleTruth /\ IdleMesh /\ IdleTTL /\ IdleStartup /\ IdleWorkers /\ IdleDiff /\ IdlePolicy /\ IdleValidator /\ IdleMonitor /\ IdleConfig /\ IdleSynth /\ IdleFeeds /\ IdleNorm /\ IdleEmitter
InitSpecMonitor == InitMonitor /\ IdleTruth /\ IdleMesh /\ IdleTTL /\ IdleStartup /\ IdleWorkers /\ IdleDiff /\ IdlePolicy /\ IdleValidator /\ IdleRss /\ IdleConfig /\ IdleSynth /\ IdleFeeds /\ IdleNorm /\ IdleEmitter
InitSpecConfig == InitConfig /\ IdleTruth /\ IdleMesh /\ IdleTTL /\ IdleStartup /\ IdleWorkers /\ IdleDiff /\ IdlePolicy /\ IdleValidator /\ IdleRss /\ IdleMonitor /\ IdleSynth /\ IdleFeeds /\ IdleNorm /\ IdleEmitter
InitSpecSynth == InitSynth /\ IdleTruth /\ IdleMesh /\ IdleTTL /\ IdleStartup /\ IdleWorkers /\ IdleDiff /\ IdlePolicy /\ IdleValidator /\ IdleRss /\ IdleMonitor /\ IdleConfig /\ IdleFeeds /\ IdleNorm /\ IdleEmitter
InitSpecFeeds == InitFeeds /\ IdleTruth /\ IdleMesh /\ IdleTTL /\ IdleStartup /\ IdleWorkers /\ IdleDiff /\ IdlePolicy /\ IdleValidator /\ IdleRss /\ IdleMonitor /\ IdleConfig /\ IdleSynth /\ IdleNorm /\ IdleEmitter
InitSpecNorm == InitNorm /\ IdleTruth /\ IdleMesh /\ IdleTTL /\ IdleStartup /\ IdleWorkers /\ IdleDiff /\ IdlePolicy /\ IdleValidator /\ IdleRss /\ IdleMonitor /\ IdleConfig /\ IdleSynth /\ IdleFeeds /\ IdleEmitter
InitSpecEmitter == InitEmitter /\ IdleTruth /\ IdleMesh /\ IdleTTL /\ IdleStartup /\ IdleWorkers /\ IdleDiff /\ IdlePolicy /\ IdleValidator /\ IdleRss /\ IdleMonitor /\ IdleConfig /\ IdleSynth /\ IdleFeeds /\ IdleNorm

SpecTruth == InitSpecTruth /\ [][NextTruth]_vars
SpecMesh == InitSpecMesh /\ [][NextMesh]_vars
SpecTTL == InitSpecTTL /\ [][NextTTL]_vars
SpecStartup == InitSpecStartup /\ [][NextStartup]_vars
SpecWorkers == InitSpecWorkers /\ [][NextWorkers]_vars
SpecDiff == InitSpecDiff /\ [][NextDiff]_vars
SpecPolicy == InitSpecPolicy /\ [][NextPolicy]_vars
SpecValidator == InitSpecValidator /\ [][NextValidator]_vars
SpecRss == InitSpecRss /\ [][NextRss]_vars
SpecConfig == InitSpecConfig /\ [][NextConfig]_vars
SpecSynth == InitSpecSynth /\ [][NextSynth]_vars
SpecFeeds == InitSpecFeeds /\ [][NextFeeds]_vars
SpecNorm == InitSpecNorm /\ [][NextNorm]_vars
SpecEmitter == InitSpecEmitter /\ [][NextEmitter]_vars

\* the monitor loop keeps scanning (heartbeat_monitor.py:64-66) and time passes
SpecMonitor ==
    /\ InitSpecMonitor
    /\ [][NextMonitor]_vars
    /\ WF_vars(MonTick)
    /\ WF_vars(MonitorBegin)
    /\ WF_vars(\E n \in Nodes : MonitorCheckKey(n))
    /\ WF_vars(MonitorEnd)

(***************************************************************************)
(* Claims.                                                                 *)
(***************************************************************************)

\* C1: the version stored under truth:integration:schema never decreases (in
\* the order of integer tuples), whatever nodes start and publish.
C1_BusVersionNeverRegresses ==
    [][bus_truth # NoDoc => (bus_truth' # NoDoc /\ TupleLeq(bus_truth, bus_truth'))]_vars

\* C2: on every node the versions adopted in memory are monotonic: an adoption
\* of version v is never preceded by an adoption of a version greater than v.
C2_AdoptionMonotonic ==
    [][\A n \in Nodes :
          (adopted[n] # NoDoc /\ adopted'[n] # adopted[n])
              => TupleLess(adopted[n], adopted'[n])]_vars


\* C3: the three bus effects of a group's heartbeat (Set of heartbeat:{group},
\* Hset of the mesh:state field, Publish on mesh:update) are observable together
\* or not at all: no state shows the heartbeat key of a cycle written while the
\* Hset and the Publish of that cycle are still queued in the pipeline.
C3_HeartbeatEffectsAtomic ==
    \A n \in Nodes : \A i \in 1..Len(pipe[n]) :
        ~ /\ hb[pipe[n][i].group] # NoKey
          /\ hb[pipe[n][i].group].p = pipe[n][i]
          /\ mesh[<<n, pipe[n][i].group>>] # pipe[n][i]

\* C4: every entry of mesh:state that is older than heartbeat_ttl_sec and not
\* marked offline when a watcher poll starts is deleted or rewritten by the time
\* that poll ends (within one watcher cycle).
C4_StaleEntriesCleared ==
    \A w \in Watchers : wpc[w] = "sleep" => wstale[w] = {}

\* a poll has ended in which the watcher itself removed an entry that was stale
\* when the poll started
C4_Witness ==
    \E w \in Watchers : wpc[w] = "sleep" /\ wcleaned[w] # {}

\* C5: the watcher of node N never deletes a field "{N}:{group}" of mesh:state
\* that N's injector wrote.
C5_WatcherKeepsOwnEntries ==
    [][\A w \in Watchers : \A g \in Groups :
          ~ /\ <<w, g>> \in wdel[w]
            /\ <<w, g>> \notin wdel'[w]
            /\ mesh[<<w, g>>] # NoPayload
            /\ mesh'[<<w, g>>] = NoPayload]_vars

\* C6: a bus key whose name starts with a prefix of finite policy TTL (mesh:,
\* heartbeat:, chainfeed:, feed:) never lives longer than the declared TTL and
\* is never persistent, whichever component wrote it.
C6_TTLWithinPolicy ==
    \A k \in Keys :
        (kttl[k] # Absent /\ PIPE_TTL_POLICY(k[1]) # -1)
            => (kttl[k] # PERSISTENT_TTL /\ kttl[k] <= PIPE_TTL_POLICY(k[1]))

IsNamedPhase(p) == p \in Range(NamedPhases)

\* the step of run() whose completion a named phase reports
StepOfPhase(p) ==
    CASE p = "redis_connected" -> "connect"
      [] p = "core_services_started" -> "core"
      [] p = "feed_service_initialized" -> "feed"
      [] p = "diff_transform_active" -> "diff"
      [] p = "rss_feeds_initialized" -> "rss"
      [] p = "synthetic_spot_initialized" -> "synth"
      [] p = "entity_bridge_initialized" -> "entity"
      [] p = "runtime_started" -> "runtime"
      [] p = "startup_complete" -> "complete"

C8_CoreFailureAborts ==
    core_failed =>
        /\ spc = "aborted"
        /\ phases = <<"redis_connected">>
        /\ \A w \in IngestionWorkers : workers[w] = "none"

C8_Witness == core_failed /\ spc = "aborted" /\ workers["listener"] = "running"

\* the order the shutdown handler's effects are specified to have
ShutdownOrder ==
    <<"notice", "final_heartbeat", "stop_rss", "stop_diff", "stop_chain", "grace",
      "stop_heartbeat", "stop_truth", "close_bus">>

\* C9: the shutdown handler's effects happen in the specified order (notice,
\* final heartbeat, stop of the RSS, diff and chain workers, grace delay, stop
\* of the heartbeat emitter and the truth listener, close of the bus client),
\* the bus client is closed exactly once and last, and no ingestion worker is
\* still running when the heartbeat emitter is stopped.
C9_ShutdownOrder ==
    /\ \A i \in DOMAIN shutdown_log : shutdown_log[i] \in Range(ShutdownOrder)
    /\ \A i, j \in DOMAIN shutdown_log :
          (i < j /\ shutdown_log[i] \in Range(ShutdownOrder)
                 /\ shutdown_log[j] \in Range(ShutdownOrder))
              => Rank(ShutdownOrder, shutdown_log[i]) < Rank(ShutdownOrder, shutdown_log[j])
    /\ spc = "terminated" =>
          /\ Last(shutdown_log) = "close_bus"
          /\ Cardinality({i \in DOMAIN shutdown_log : shutdown_log[i] = "close_bus"}) = 1
    /\ "stop_heartbeat" \in Range(shutdown_log) =>
          \A w \in IngestionWorkers : workers[w] \notin {"running", "stopping"}

\* C10: once the final shutting_down heartbeat is stored, no later write replaces
\* it with a heartbeat of another status.
C10_FinalHeartbeatStays ==
    [][hb_status = "shutting_down" => hb_status' = "shutting_down"]_vars

\* C11: after the shutdown notice has been written to
\* truth:system:shutdown_notice no raw chain worker writes a
\* truth:chain:raw:{SYM} key.
C11_NoRawWriteAfterNotice == ~late_write

\* C12: once stop() has been called on a worker, the worker finishes at most
\* the cycle in progress: it begins no further cycle.
C12_NoCycleAfterStop == \A w \in WorkerIds : ~wk_late[w]

\* C13: no exception raised inside a worker's cycle ends the worker's loop:
\* a worker whose loop has ended is one whose stop() was called.
C13_OnlyStopEndsLoop ==
    \A w \in WorkerIds : wk_pc[w] = "exited" => wk_stopped[w]

\* C15: whatever chainfeed.default_symbols is, the frame_ts of the values
\* stored under one truth:chain:raw:{SYM} key never decreases.
C15_FrameTsNonDecreasing ==
    [][\A k \in ChainSymbols :
          (raw_key[k] # NoFrame /\ raw_key'[k] # NoFrame)
              => raw_key[k][1] <= raw_key'[k][1]]_vars

\* applying a diff to a frame: drop the removed contracts, give the changed
\* ones their new field values, add the added ones
ApplyDiff(prev, D) ==
    LET kept == {p \in prev : p \notin D.removed}
        NewValue(p, f) ==
            IF \E ch \in D.changed : ch.key = p.key /\ \E fc \in ch.field_changes : fc[1] = f
            THEN LET ch == CHOOSE x \in D.changed : x.key = p.key
                     fc == CHOOSE y \in ch.field_changes : y[1] = f
                 IN fc[3]
            ELSE p[f]
    IN {[key |-> p.key, bid |-> NewValue(p, "bid")] : p \in kept} \cup D.added

Consumes(n) == tpc[n] = "listening" /\ inbox[n] # <<>> /\ inbox'[n] = Tail(inbox[n])

\* C16: when the listener of a node has taken a truth update of version v from
\* truth:update:schema, the node's in-memory truth document is the document of
\* version v (so an update published by one node reaches the other).
C16_UpdateReachesMemory ==
    [][\A n \in Nodes :
          (Consumes(n) /\ Head(inbox[n]) \in Versions) => truth_cfg'[n] = Head(inbox[n])]_vars

\* C17: a message on truth:update:schema that is no valid update payload leaves
\* the in-memory document unchanged and the listener listening, and a valid
\* message taken after it is applied.
C17_InvalidUpdateIgnored ==
    [][\A n \in Nodes :
          Consumes(n) =>
              IF Head(inbox[n]) = BadMessage
              THEN truth_cfg'[n] = truth_cfg[n] /\ tpc'[n] = "listening"
              ELSE bad_seen[n] => truth_cfg'[n] = Head(inbox[n])]_vars

\* C18: sync with the bus adopts the bus copy exactly when its version is
\* greater than the local one as tuples of integers; otherwise the local
\* document is kept, and the publish that follows leaves the bus holding the
\* local copy.
C18_SyncAdoptsGreaterTuple ==
    [][\A n \in Nodes :
          /\ (tpc[n] = "loaded" /\ tpc'[n] # "loaded") =>
                IF bus_truth # NoDoc /\ TupleLess(truth_cfg[n], bus_truth)
                THEN truth_cfg'[n] = bus_truth
                ELSE truth_cfg'[n] = truth_cfg[n]
          /\ (tpc[n] \in {"sync_publish", "synced"} /\ tpc'[n] # tpc[n]) =>
                bus_truth' = truth_cfg[n]]_vars

\* the time-to-live the policy table gives a key of this prefix
ClaimedTTL(prefix) ==
    CASE prefix \in {"meta:", "config:", "expirations:"} -> PERSISTENT_TTL
      [] prefix = "mesh:" -> 600
      [] prefix = "heartbeat:" -> 15
      [] prefix = "chainfeed:" -> 20
      [] prefix = "feed:" -> 15
      [] OTHER -> 15

\* C19: every key written by redis_set_with_policy holds the time-to-live of
\* the policy prefix it starts with (no expiry for a -1 entry), a key matching
\* no prefix holds 15 s, and every call issues exactly one Set.
C19_PolicyLookup ==
    /\ \A k \in PolicyKeys : pstore[k] # Absent => pstore[k] = ClaimedTTL(k[1])
    /\ psets = pcalls

C19_Witness ==
    /\ pstore[<<"truth:", "key">>] = 15
    /\ pstore[<<"expirations:", "key">>] = PERSISTENT_TTL
    /\ pstore[<<"chainfeed:", "key">>] = 20
    /\ psets = 3

\* C20: validate_feed_availability answers invalid on Saturday and Sunday,
\* before 09:30 and after 16:00, and valid otherwise (Monday to Friday, 09:30
\* to 16:00 inclusive); the answer is a function of the time and the symbol and
\* the call changes nothing on the bus.
C20_DecisionTable ==
    [][(v_result = NoResult /\ v_result' # NoResult) =>
          /\ v_result'.valid = (v_day \in 0..4 /\ v_sec >= 34200 /\ v_sec <= 57600)
          /\ v_result' = ValidateResult(v_day, v_sec, v_sym)
          /\ UNCHANGED <<bus_truth, hb, mesh, kttl, raw_key, full_key, prev_key, diff_key,
                         pstore>>]_vars

C20_Witness ==
    /\ v_day = 4
    /\ v_sec = close_time
    /\ v_sym = "SPX"
    /\ v_result.valid

\* C21 as stated: the item keys of the group are one per canonical URL polled,
\* and as many as the distinct canonical URLs polled.
C21_KeysEqualUrlsPolled ==
    /\ \A i, j \in rss_items : i.payload.url = j.payload.url => i.key = j.key
    /\ Cardinality(rss_items) = Cardinality(rss_polled)

\* C21 amended: the UID is a function of the canonical URL only, so there is at
\* most one item key per canonical URL, every item key is the key of a
\* canonical URL polled, and the number of item keys never exceeds the number
\* of distinct canonical URLs polled (entries older than MAX_AGE_DAYS write no
\* key and a key goes when its expiry passes).
C21_OneKeyPerUrl ==
    /\ \A i, j \in rss_items : i.payload.url = j.payload.url => i = j
    /\ \A i \in rss_items : i.payload.url \in rss_polled /\ i.key = Sha256(i.payload.url)
    /\ Cardinality(rss_items) <= Cardinality(rss_polled)

C21_Witness ==
    /\ rss_google
    /\ Cardinality(rss_items) = 1
    /\ \E i \in rss_items : i.payload.url = Url("A", "", "") /\ i.payload.source = "reuters"
    /\ rss_polled = {Url("A", "", ""), Url("B", "", "")}

\* raw chain worker 1 ends a cycle whose fetch failed
EndsFailedCycle ==
    wk_kind[1] = "raw" /\ wk_pc[1] = "publish" /\ wk_pc'[1] = "sleep" /\ wk_failed

\* C22: a cycle of a raw chain worker whose fetch failed (or whose normalizer
\* failed) writes nothing: the snapshot under truth:chain:raw:{SYM} is the one
\* published before.
C22_FailedCycleWritesNothing ==
    [][EndsFailedCycle => raw_key' = raw_key]_vars

\* C23: a raw chain worker with three failed cycles in a row has the status
\* of its symbol degraded, and one whose last cycle succeeded (or with fewer
\* than three failures in a row) does not.
C23_DegradedAfterThreeFailures ==
    (wk_kind[1] = "raw" /\ wk_pc[1] = "sleep") =>
        (status_key[wk_key[1]] = "degraded" <=> wk_fails >= 3)

\* the monitor checks the heartbeat key of node n in this step
ChecksKey(n) == mpc = "scan" /\ n \in m_todo /\ n \notin m_todo'

C25_HeartbeatKeysExpire ==
    \A k \in {KeyTruthHeartbeat, KeyHeartbeat} :
        kttl[k] # Absent => (kttl[k] # PERSISTENT_TTL /\ kttl[k] <= HEARTBEAT_TTL_SEC)

\* C26: load_variant_config raises FileNotFoundError when the path does not
\* exist, raises ValueError for every existing file whose parsed content has
\* no 'symbols' entry, and otherwise returns the parsed content unchanged.
HasSymbolsEntry(doc) == doc.kind = "dict" /\ "symbols" \in doc.names

C26_LoadVariantConfig ==
    cfg_result # NotCalled =>
        cfg_result =
            IF ~cfg_exists THEN Outcome("FileNotFoundError", NoDocument)
            ELSE IF ~HasSymbolsEntry(cfg_content) THEN Outcome("ValueError", NoDocument)
            ELSE Outcome("return", cfg_content)

\* C27: a node the watcher marks offline keeps its mesh:state entry for the
\* rest of that poll cycle: when the poll ends, the entry still exists and its
\* status is offline.
C27_OfflineRetainedForCycle ==
    [][\A w \in Watchers :
          (wpc[w] = "sync" /\ wpc'[w] = "sleep") =>
              \A f \in woff[w] : mesh[f] # NoPayload /\ mesh[f].status = "offline"]_vars

\* C28: the watcher's reconciliation of mesh:state is one atomic batch: an
\* entry an injector writes while the reconciliation is in progress is not
\* deleted by that reconciliation.
C28_ReconciliationAtomic ==
    [][\A w \in Watchers : \A f \in Fields :
          (f \in wdel[w] /\ f \notin wdel'[w] /\ mesh'[f] = NoPayload) => f \notin wfresh[w]]_vars

\* C29: when a diff cycle that was not skipped ends, the key
\* truth:chain:full:{SYM}:prev holds the frame the cycle used as current.
C29_PrevHoldsCurrent ==
    [][(dpc = "publish" /\ dpc' = "idle") => prev_key' = d_cur]_vars

\* C30: for every diff the worker writes, the frame_ts of the previous frame
\* it read is strictly less than the frame_ts of the current frame it read,
\* whatever the builder stored between the two reads.
C30_FrameTsWindowIncreasing ==
    [][(dpc = "publish" /\ dpc' = "idle") => d_prev.frame_ts < d_cur.frame_ts]_vars

\* the two frame keys on the bus are themselves always in order: the builder
\* never shows a :prev as new as the frame under the full key
BusFramesInOrder ==
    (full_key.present /\ prev_key.present) => prev_key.frame_ts < full_key.frame_ts

\* C32: on a Friday after 16:00 validate_feed_availability answers a
\* weekly-options symbol with the "weekly expired" reason and any other symbol
\* with the post-market reason; both answers are invalid.
C32_WeeklyExpiredOnFriday ==
    (v_result # NoResult /\ v_day = 4 /\ v_sec > close_time) =>
        /\ ~v_result.valid
        /\ v_result.reason =
              IF IsWeeklyOptionsSymbol(v_sym) THEN "weekly expired" ELSE "post-market"

AllPresent(prices) == \A c \in Components : prices[c] # NoSpot

\* the cycle takes its decision on the prices it has read
DecideStep == syn_pc = "decide" /\ syn_pc' # "decide"

C33_WorkersOnlyForValidSymbols ==
    fo_todo = <<>> =>
        \A i \in DOMAIN default_symbols :
            LET sym == default_symbols[i]
                valid == ValidateResult(fo_day, fo_sec, sym).valid
            IN /\ sym \in fo_workers <=> valid
               /\ ~valid => sym \in fo_validation

\* C34: no entry whose published date lies more than MAX_AGE_DAYS = 3 days
\* before the poll is written to truth:feed:rss:{group}:{uid}, whatever the
\* fraction of a day above three (three days and twelve hours included).
C34_NoEntryOlderThanMaxAge == ~rss_over_age

\* C39: a key written with SET followed by EXPIRE (truth:feed:rss:{group}:{uid},
\* truth:spot:{SYNTH}) is never on the bus without a time-to-live, neither
\* between the two commands nor after a failure of the second.
C39_NoKeyWithoutTTL ==
    /\ spot_key.present => spot_key.ttl # PERSISTENT_TTL
    /\ \A i \in rss_items : i.ttl # PERSISTENT_TTL

\* the same, once the writer has left the pair of commands behind
C39_NoKeyLeftWithoutTTL ==
    /\ (spot_key.present /\ syn_pc # "expire") => spot_key.ttl # PERSISTENT_TTL
    /\ rss_pending = NoUid => \A i \in rss_items : i.ttl # PERSISTENT_TTL

\* C35: a failure initialising a non-core component (diff transform, RSS
\* feeds, synthetic spot) does not abort startup: the step that failed hands
\* over to the next step, startup never aborts once a non-core component has
\* failed, and every status document published from the failure on records
\* the component as error.
C35_NonCoreFailureContinues ==
    [][/\ phases' # phases => \A c \in init_failed' : status_pub'[c] = "error"
       /\ init_failed' # init_failed => spc' = NextStep(spc)
       /\ init_failed # {} => spc' # "aborted"]_vars

C35_Witness ==
    /\ init_failed = NonCore
    /\ Last(phases) = "startup_complete"
    /\ \A c \in NonCore : status_pub[c] = "error"

\* C40: once the shutdown handler has been entered, run() does not end before
\* the heartbeat service, the truth service and the synthetic spot service
\* (when one was created) have been asked to stop, whatever exception was
\* raised while publishing the shutdown notice, writing the final heartbeat or
\* stopping the RSS and diff workers.
C40_CoreStoppedOnEveryPath ==
    spc = "terminated" =>
        /\ "stop_heartbeat" \in Range(shutdown_log)
        /\ "stop_truth" \in Range(shutdown_log)
        /\ ~emitter_running
        /\ workers["listener"] \notin {"running"}
        /\ workers["synth"] \notin {"running"}

C40_Witness ==
    /\ spc = "terminated"
    /\ sd_raised
    /\ "grace" \notin Range(shutdown_log)
    /\ "stop_synth" \in Range(shutdown_log)
    /\ "stop_truth" \in Range(shutdown_log)

\* an entry with a contract type, a numeric strike and an expiry
WellFormed(o) ==
    /\ o.contract_type \in {"call", "PUT"}
    /\ o.strike_price.kind \in {"number", "text"}
    /\ o.strike_price.val >= 0
    /\ o.expiration_date \notin {KeyMissing, Null}

\* C36: for a vendor payload that mixes well-formed and malformed entries the
\* normalizer returns one OptionContract per well-formed entry, in order, and
\* drops only the malformed ones; every contract returned has a contract
\* type, a strike and an expiry.
C36_DropsOnlyMalformed ==
    nz_pc = "done" =>
        /\ ~nz_out.raised
        /\ Len(nz_out.contracts) = Len(SelectSeq(nz_payload, WellFormed))
        /\ \A i \in DOMAIN nz_out.contracts :
              LET o == SelectSeq(nz_payload, WellFormed)[i]
                  c == nz_out.contracts[i]
              IN  /\ c.contract_type = Lower(o.contract_type)
                  /\ c.strike = o.strike_price.val
                  /\ c.expiry = o.expiration_date

\* C36, the payloads the code handles as specified: every entry well-formed
C36_AllWellFormedNormalized ==
    (nz_pc = "done" /\ \A i \in DOMAIN nz_payload : WellFormed(nz_payload[i])) =>
        /\ ~nz_out.raised
        /\ Len(nz_out.contracts) = Len(nz_payload)

\* C36: a malformed entry after a well-formed one makes the whole call raise
C36_MixedPayloadRaises ==
    /\ nz_pc = "done"
    /\ Len(nz_payload) = 2
    /\ WellFormed(nz_payload[1])
    /\ ~WellFormed(nz_payload[2])
    /\ nz_out.raised

\* C37: after any sequence of start() and stop() calls at most one emitter
\* thread is inside an iteration of the emission loop begun since the last
\* stop(), also when the join of that stop() timed out and start() was called
\* again; a start() while the emitter is running creates no thread and
\* changes nothing of the emitter.
C37_AtMostOneEmitter ==
    [][/\ Cardinality(em_cycle') <= 1
       /\ (em_calls' # em_calls /\ em_last' = "start" /\ em_running)
             => UNCHANGED <<em_running, em_thread, em_pc>>]_vars

\* C37: two threads publish heartbeats side by side after stop() gave up its
\* join and start() was called again
C37_TwoEmitters ==
    /\ em_running
    /\ \E t, u \in EmitterThreads :
         /\ t # u
         /\ em_pc[t] = "publish"
         /\ em_pc[u] = "publish"

\* C38: a stop() issued after start() is never lost: when stop() is called on
\* a raw chain worker or on the diff worker before its thread has begun
\* run(), the worker completes at most one cycle.
C38_EarlyStopNotLost ==
    \A w \in WorkerIds :
        wk_kind[w] \in {"raw", "diff"} => wk_early[w] <= 2

\* C38: a worker stopped before run() began is in its loop with two cycles
\* completed and its flag set
C38_EarlyStopLost ==
    \E w \in WorkerIds :
        /\ wk_kind[w] \in {"raw", "diff"}
        /\ wk_early[w] = 3
        /\ wk_flag[w]

====
